---- MODULE Spec2Model ----
(***************************************************************************)
(* A model of the expense tracker's analytics layer (backend/analytics.py) *)
(* over the transaction and budget tables (backend/models.py,              *)
(* backend/crud.py).                                                       *)
(*                                                                         *)
(* Dates are day ordinals, day 0 being Monday 2024-01-01; the calendar     *)
(* operators below turn an ordinal into (year, month, day) and back with   *)
(* the Gregorian month lengths.  Amounts are integers; a quotient the code *)
(* computes in floating point (a percentage, a mean, a z-score) is kept as *)
(* an exact fraction and compared by cross-multiplication.                 *)
(***************************************************************************)
EXTENDS Integers, Sequences, FiniteSets, TLC

VARIABLES
    transactions,   \* the transactions table, in insertion (id) order
    budgets,        \* the budgets table, in insertion (id) order
    today,          \* date.today()
    result,         \* what the last request returned
    sequences,      \* the last id each table's autoincrement has given out
    requests        \* the requests in flight, each with its session

vars == <<transactions, budgets, today, result, sequences, requests>>

(***************************************************************************)
(* Bounds of the model.                                                    *)
(***************************************************************************)
MaxAlertTxns == 2
MaxSpentTxns == 2
MaxTrendTxns == 3
MaxTrendMonths == 2
MaxPatternTxns == 2
MaxTopTxns == 3
MaxTopLimit == 2
MaxUnusualTxns == 7
MaxHistoryTxns == 5
MaxCurrentTxns == 3

(***************************************************************************)
(* Calendar (datetime.date, pandas .dt accessors).                         *)
(***************************************************************************)
IsLeap(y) == (y % 4 = 0 /\ y % 100 # 0) \/ y % 400 = 0

DaysInMonth(y, m) ==
    IF m = 2 THEN (IF IsLeap(y) THEN 29 ELSE 28)
    ELSE IF m \in {4, 6, 9, 11} THEN 30 ELSE 31

RECURSIVE YMD(_, _, _)
YMD(n, y, m) ==
    IF n < DaysInMonth(y, m)
    THEN [year |-> y, month |-> m, day |-> n + 1]
    ELSE YMD(n - DaysInMonth(y, m),
             IF m = 12 THEN y + 1 ELSE y,
             IF m = 12 THEN 1 ELSE m + 1)

\* date -> (year, month, day)
DateOf(n) == YMD(n, 2024, 1)

RECURSIVE DaysBefore(_, _)
DaysBefore(y, m) ==
    IF y = 2024 /\ m = 1 THEN 0
    ELSE LET py == IF m = 1 THEN y - 1 ELSE y
             pm == IF m = 1 THEN 12 ELSE m - 1
         IN  DaysBefore(py, pm) + DaysInMonth(py, pm)

\* date(year, month, day)
MakeDate(y, m, d) == DaysBefore(y, m) + d - 1

\* .dt.to_period('M'): the calendar month, ordered chronologically
MonthPeriod(n) == DateOf(n).year * 12 + (DateOf(n).month - 1)

\* Period.astype(str): 'YYYY-MM'
MonthStr(p) ==
    LET y == p \div 12
        m == (p % 12) + 1
    IN  ToString(y) \o "-" \o (IF m < 10 THEN "0" ELSE "") \o ToString(m)

\* .dt.dayofweek: Monday = 0 ... Sunday = 6
DayOfWeek(n) == n % 7

DayNames == <<"Monday", "Tuesday", "Wednesday", "Thursday",
              "Friday", "Saturday", "Sunday">>

\* .dt.day_name()
DayName(n) == DayNames[DayOfWeek(n) + 1]

(***************************************************************************)
(* The categories table: three of the seeded rows, with the ids the seed   *)
(* gives them.  Names are unique; the rows are listed in ascending name    *)
(* order, so a name's position is its rank in string order.                *)
(***************************************************************************)
Categories ==
    <<[id |-> 1, name |-> "Food & Dining", type |-> "expense"],
      [id |-> 10, name |-> "Home & Rent", type |-> "expense"],
      [id |-> 14, name |-> "Salary", type |-> "income"]>>

CategoryIds == {Categories[i].id : i \in DOMAIN Categories}

\* Transaction.category_rel.name / Budget.category_rel.name
CategoryName(cid) ==
    Categories[CHOOSE i \in DOMAIN Categories : Categories[i].id = cid].name

\* position of a name in ascending string order
NameRank(name) == CHOOSE i \in DOMAIN Categories : Categories[i].name = name

(***************************************************************************)
(* Fractions: a float quotient a / b, kept exact.  err marks the           *)
(* ZeroDivisionError Python raises for b = 0.                              *)
(***************************************************************************)
Rat(n, d) == [err |-> FALSE, num |-> n, den |-> d]

TrueDiv(a, b) ==
    IF b = 0 THEN [err |-> TRUE, num |-> 0, den |-> 1]
    ELSE IF b < 0 THEN Rat(-a, -b) ELSE Rat(a, b)

RatTimes(r, k) == [r EXCEPT !.num = r.num * k]

RatGE(r, k) == r.num >= k * r.den
RatEq(r, k) == r.num = k * r.den
RatGreater(r, s) == r.num * s.den > s.num * r.den

(***************************************************************************)
(* Sequence helpers.                                                       *)
(***************************************************************************)
RECURSIVE SumAmounts(_)
SumAmounts(rows) ==
    IF rows = <<>> THEN 0 ELSE Head(rows).amount + SumAmounts(Tail(rows))

(***************************************************************************)
(* The tables.                                                             *)
(***************************************************************************)
TransactionTypes == {"income", "expense"}

\* a Transaction row (description and created_at carry no behaviour)
TransactionRow(id, d, amount, cid, type) ==
    [id |-> id, date |-> d, amount |-> amount, category_id |-> cid,
     transaction_type |-> type]

\* a Budget row
BudgetRow(id, cid, limit, start) ==
    [id |-> id, category_id |-> cid, monthly_limit |-> limit,
     start_date |-> start]

NoResult == [op |-> "none"]

\* the autoincrement counters of tables no row was ever deleted from
NoDeletions == [transactions |-> Len(transactions), budgets |-> Len(budgets)]

\* no request in flight
NoRequests == <<>>

\* crud.create_transaction: insert, commit, return the row with its new id
CreateTransaction(d, amount, cid, type) ==
    LET row == TransactionRow(sequences.transactions + 1, d, amount, cid, type)
    IN  /\ transactions' = Append(transactions, row)
        /\ sequences' = [sequences EXCEPT !.transactions = @ + 1]
        /\ result' = [op |-> "create_transaction", value |-> row]
        /\ UNCHANGED <<budgets, today, requests>>

\* budgets.category_id without its UNIQUE constraint
UniqueNotEnforced(cid) == FALSE

\* budgets.category_id is UNIQUE: a second row for a category is refused
UniqueViolation(cid) == \E i \in DOMAIN budgets : budgets[i].category_id = cid

\* crud.create_budget: insert and commit; a second budget for a category
\* fails the commit with IntegrityError
CommitBudget(cid, limit) ==
    LET row == BudgetRow(sequences.budgets + 1, cid, limit, today)
    IN  IF UniqueViolation(cid)
        THEN /\ budgets' = budgets
             /\ sequences' = sequences
             /\ result' = [op |-> "create_budget", raised |-> "IntegrityError"]
        ELSE /\ budgets' = Append(budgets, row)
             /\ sequences' = [sequences EXCEPT !.budgets = @ + 1]
             /\ result' = [op |-> "create_budget", value |-> row]

CreateBudget(cid, limit) ==
    /\ CommitBudget(cid, limit)
    /\ UNCHANGED <<transactions, today, requests>>

(***************************************************************************)
(* analytics.get_budget_alerts                                             *)
(***************************************************************************)
CriticalPct == 100
WarningPct == 90
InfoPct == 75

\* date(today.year, today.month, 1)
StartOfMonth(d) == MakeDate(DateOf(d).year, DateOf(d).month, 1)

\* IsCurrentMonthExpense without the upper bound on the date
IsExpenseSinceStartOfMonth(t) ==
    /\ t.date >= StartOfMonth(today)
    /\ t.transaction_type = "expense"

\* the query: this month's expenses up to today
IsCurrentMonthExpense(t) ==
    /\ t.date >= StartOfMonth(today)
    /\ t.date <= today
    /\ t.transaction_type = "expense"

CurrentMonthExpenses == SelectSeq(transactions, IsCurrentMonthExpense)

\* spending_by_category: category_id -> summed amount, for the ids seen
SpendingByCategory(rows) ==
    [c \in {rows[i].category_id : i \in DOMAIN rows} |->
        SumAmounts(SelectSeq(rows, LAMBDA t : t.category_id = c))]

\* spending_by_category.get(budget.category_id, 0)
SpentFor(spending, cid) == IF cid \in DOMAIN spending THEN spending[cid] ELSE 0

\* Percentage without its zero-limit guard
PercentageUnguarded(spent, limit) == RatTimes(TrueDiv(spent, limit), 100)

\* (spent / monthly_limit * 100) if monthly_limit > 0 else 0
Percentage(spent, limit) ==
    IF limit > 0 THEN RatTimes(TrueDiv(spent, limit), 100) ELSE Rat(0, 1)

\* AlertLevel with the warning test written > instead of >=
AlertLevelStrictWarning(percentage) ==
    IF RatGE(percentage, CriticalPct) THEN "critical"
    ELSE IF RatGE(percentage, WarningPct) /\ ~RatEq(percentage, WarningPct) THEN "warning"
    ELSE IF RatGE(percentage, InfoPct) THEN "info"
    ELSE "none"

\* the if / elif chain; "none" is alert_level None
AlertLevel(percentage) ==
    IF RatGE(percentage, CriticalPct) THEN "critical"
    ELSE IF RatGE(percentage, WarningPct) THEN "warning"
    ELSE IF RatGE(percentage, InfoPct) THEN "info"
    ELSE "none"

\* one pass of the loop over budgets: what is printed and, with a level,
\* appended to alerts
BudgetLine(budget, spending) ==
    LET spent == SpentFor(spending, budget.category_id)
        percentage == Percentage(spent, budget.monthly_limit)
    IN  [category |-> CategoryName(budget.category_id),
         budget |-> budget.monthly_limit,
         spent |-> spent,
         remaining |-> budget.monthly_limit - spent,
         percentage |-> percentage,
         alert_level |-> AlertLevel(percentage)]

BudgetLines(spending) == [i \in DOMAIN budgets |-> BudgetLine(budgets[i], spending)]

\* sorted(alerts, key=percentage, reverse=True): Python's sort is stable, so
\* alerts with equal percentage keep their order
RECURSIVE InsertByPercentage(_, _)
InsertByPercentage(x, sorted) ==
    IF sorted = <<>> THEN <<x>>
    ELSE IF RatGreater(x.percentage, Head(sorted).percentage) THEN <<x>> \o sorted
    ELSE <<Head(sorted)>> \o InsertByPercentage(x, Tail(sorted))

RECURSIVE SortByPercentage(_)
SortByPercentage(rows) ==
    IF rows = <<>> THEN <<>>
    ELSE InsertByPercentage(rows[Len(rows)],
                            SortByPercentage(SubSeq(rows, 1, Len(rows) - 1)))

HasLevel(line) == line.alert_level # "none"

\* the whole function: printed lines (debug) and the returned list (value)
BudgetAlerts ==
    LET rows == CurrentMonthExpenses
        lines == BudgetLines(SpendingByCategory(rows))
    IN  IF rows = <<>> THEN [op |-> "budget_alerts", raised |-> "", debug |-> <<>>, value |-> <<>>]
        ELSE IF budgets = <<>> THEN [op |-> "budget_alerts", raised |-> "", debug |-> <<>>, value |-> <<>>]
        ELSE IF \E i \in DOMAIN lines : lines[i].percentage.err
        THEN [op |-> "budget_alerts", raised |-> "ZeroDivisionError",
              debug |-> <<>>, value |-> <<>>]
        ELSE [op |-> "budget_alerts", raised |-> "", debug |-> lines,
              value |-> SortByPercentage(SelectSeq(lines, HasLevel))]

GetBudgetAlerts ==
    /\ result' = BudgetAlerts
    /\ UNCHANGED <<transactions, budgets, today, sequences, requests>>

(***************************************************************************)
(* Budget alerts over a small ledger: expenses and income around the       *)
(* current month's window, budgets with zero and positive limits.          *)
(***************************************************************************)
TodayChoices == {MakeDate(2024, 7, 15)}

AlertAmounts == {10, 75, 90, 400}
AlertLimits == {0, 100, 500}
AlertCategories == {1, 10}

InitAlerts ==
    /\ transactions = <<>>
    /\ budgets = <<>>
    /\ today \in TodayChoices
    /\ result = NoResult
    /\ sequences = NoDeletions
    /\ requests = NoRequests

AlertsCreateTransaction ==
    /\ Len(transactions) < MaxAlertTxns
    /\ \E amount \in AlertAmounts, cid \in AlertCategories :
           CreateTransaction(today, amount, cid, "expense")

AlertsCreateBudget ==
    \E cid \in AlertCategories, limit \in AlertLimits : CreateBudget(cid, limit)

NextAlerts == AlertsCreateTransaction \/ AlertsCreateBudget \/ GetBudgetAlerts

SpecAlerts == InitAlerts /\ [][NextAlerts]_vars

(***************************************************************************)
(* Budget alerts over transactions of both kinds dated around the          *)
(* month-to-date window: the last day of the previous month, the first of  *)
(* the month, today and tomorrow.                                          *)
(***************************************************************************)
SpentTodayChoices == {MakeDate(2024, 7, 15), MakeDate(2024, 3, 1)}

SpentAmounts == {75, 400}
SpentLimits == {100}
SpentCategories == {1, 10}

WindowDates == {StartOfMonth(today) - 1, StartOfMonth(today), today, today + 1}

InitSpent ==
    /\ transactions = <<>>
    /\ budgets = <<>>
    /\ today \in SpentTodayChoices
    /\ result = NoResult
    /\ sequences = NoDeletions
    /\ requests = NoRequests

SpentCreateTransaction ==
    /\ Len(transactions) < MaxSpentTxns
    /\ \E d \in WindowDates, amount \in SpentAmounts,
          cid \in SpentCategories, type \in TransactionTypes :
           CreateTransaction(d, amount, cid, type)

SpentCreateBudget ==
    \E cid \in SpentCategories, limit \in SpentLimits : CreateBudget(cid, limit)

NextSpent == SpentCreateTransaction \/ SpentCreateBudget \/ GetBudgetAlerts

SpecSpent == InitSpent /\ [][NextSpent]_vars

\* the amounts of the stored expenses of category cid dated in today's
\* calendar month and not after today, summed row by row
RECURSIVE MonthToDateSpend(_, _)
MonthToDateSpend(cid, n) ==
    IF n = 0 THEN 0
    ELSE LET t == transactions[n]
             counts == /\ t.transaction_type = "expense"
                       /\ t.category_id = cid
                       /\ DateOf(t.date).year = DateOf(today).year
                       /\ DateOf(t.date).month = DateOf(today).month
                       /\ t.date <= today
         IN  (IF counts THEN t.amount ELSE 0) + MonthToDateSpend(cid, n - 1)

AlertsFor(cid) ==
    SelectSeq(result.value, LAMBDA a : a.category = CategoryName(cid))

\* the level the table of thresholds gives spent against limit (limit > 0)
TableLevel(spent, limit) ==
    IF spent * 100 >= 100 * limit THEN "critical"
    ELSE IF spent * 100 >= 90 * limit /\ spent * 100 < 100 * limit THEN "warning"
    ELSE IF spent * 100 >= 75 * limit /\ spent * 100 < 90 * limit THEN "info"
    ELSE "none"

\* C1: for every budget with monthly_limit > 0, get_budget_alerts returns no
\* alert for it when spent / limit * 100 < 75 and otherwise exactly one
\* alert, whose percentage is spent / limit * 100 and whose level is
\* critical for >= 100, warning for [90, 100), info for [75, 90).
C1_AlertClassification ==
    result.op = "budget_alerts" =>
        \A i \in DOMAIN budgets :
            budgets[i].monthly_limit > 0 =>
                LET limit == budgets[i].monthly_limit
                    spent == MonthToDateSpend(budgets[i].category_id, Len(transactions))
                    level == TableLevel(spent, limit)
                    got == AlertsFor(budgets[i].category_id)
                IN  /\ result.raised = ""
                    /\ level = "none" => got = <<>>
                    /\ level # "none" =>
                          /\ Len(got) = 1
                          /\ got[1].alert_level = level
                          /\ got[1].percentage.num * limit
                                = spent * 100 * got[1].percentage.den

\* the scenario of the spec: limit 500, spent 475, 95 percent, warning
C1_Witness ==
    /\ result.op = "budget_alerts"
    /\ \E i \in DOMAIN result.value :
           /\ result.value[i].budget = 500
           /\ result.value[i].spent = 475
           /\ RatEq(result.value[i].percentage, 95)
           /\ result.value[i].alert_level = "warning"

\* C2: a budget with monthly_limit = 0 never makes get_budget_alerts raise,
\* its percentage is 0 whatever was spent, and it is in no returned alert.
C2_ZeroLimitNoAlert ==
    result.op = "budget_alerts" =>
        \A i \in DOMAIN budgets :
            budgets[i].monthly_limit = 0 =>
                /\ result.raised = ""
                /\ AlertsFor(budgets[i].category_id) = <<>>
                /\ \A j \in DOMAIN result.debug :
                       result.debug[j].category = CategoryName(budgets[i].category_id)
                           => /\ ~result.debug[j].percentage.err
                              /\ RatEq(result.debug[j].percentage, 0)

\* a zero-limit budget whose category has spending this month went through
\* the loop
C2_Witness ==
    /\ result.op = "budget_alerts"
    /\ \E i \in DOMAIN budgets :
           /\ budgets[i].monthly_limit = 0
           /\ MonthToDateSpend(budgets[i].category_id, Len(transactions)) > 0
           /\ \E j \in DOMAIN result.debug :
                  /\ result.debug[j].category = CategoryName(budgets[i].category_id)
                  /\ result.debug[j].spent > 0

\* C3: the spent amount get_budget_alerts uses for a budget, and reports in
\* its alert, is the sum of the expense transactions of the budget's
\* category dated from the first of the current month through today;
\* income, other categories and other dates add nothing.
C3_SpentIsMonthToDateExpenses ==
    result.op = "budget_alerts" =>
        /\ \A j \in DOMAIN result.debug :
               /\ j \in DOMAIN budgets
               /\ result.debug[j].spent
                    = MonthToDateSpend(budgets[j].category_id, Len(transactions))
        /\ \A i \in DOMAIN budgets :
               \A k \in DOMAIN AlertsFor(budgets[i].category_id) :
                   AlertsFor(budgets[i].category_id)[k].spent
                     = MonthToDateSpend(budgets[i].category_id, Len(transactions))

\* a budget's category has an expense inside the window, and beside it an
\* income row or an expense outside the window, and the loop reported it
C3_Witness ==
    /\ result.op = "budget_alerts"
    /\ \E j \in DOMAIN result.debug :
           /\ result.debug[j].spent > 0
           /\ \E n \in DOMAIN transactions :
                  /\ transactions[n].category_id = budgets[j].category_id
                  /\ \/ transactions[n].transaction_type = "income"
                     \/ transactions[n].date > today
                     \/ transactions[n].date < StartOfMonth(today)

(***************************************************************************)
(* analytics.transactions_to_dataframe                                     *)
(***************************************************************************)
None == [has |-> FALSE, date |-> 0]
Some(d) == [has |-> TRUE, date |-> d]

\* one row of the frame
FrameRow(t) ==
    [id |-> t.id, date |-> t.date, amount |-> t.amount,
     category |-> CategoryName(t.category_id), type |-> t.transaction_type]

\* the date filters, each applied only when its bound is given, then the
\* rows in table order
TransactionsToDataframe(start_date, end_date) ==
    LET kept == SelectSeq(transactions,
                    LAMBDA t : /\ start_date.has => t.date >= start_date.date
                               /\ end_date.has => t.date <= end_date.date)
    IN  [i \in DOMAIN kept |-> FrameRow(kept[i])]

\* FrameExpenses keeping every row
FrameAllRows(df) == df

\* df[df['type'] == 'expense']
FrameExpenses(df) == SelectSeq(df, LAMBDA r : r.type = "expense")

(***************************************************************************)
(* analytics.get_monthly_spending_trend                                    *)
(***************************************************************************)
DaysPerMonth == 30

\* a finite set of integers as an ascending sequence (groupby sorts its keys)
RECURSIVE Ascending(_)
Ascending(S) ==
    IF S = {} THEN <<>>
    ELSE LET m == CHOOSE x \in S : \A y \in S : x <= y
         IN  <<m>> \o Ascending(S \ {m})

\* groupby('month')['amount'].sum() with month as 'YYYY-MM'
MonthlyTotals(rows) ==
    LET months == Ascending({MonthPeriod(rows[i].date) : i \in DOMAIN rows})
    IN  [k \in DOMAIN months |->
            [month |-> MonthStr(months[k]),
             amount |-> SumAmounts(SelectSeq(rows,
                            LAMBDA r : MonthPeriod(r.date) = months[k]))]]

\* end_date - timedelta(days=months * 30)
TrendStart(months) == today - months * DaysPerMonth

MonthlySpendingTrend(months) ==
    LET df == TransactionsToDataframe(Some(TrendStart(months)), Some(today))
    IN  IF df = <<>> THEN <<>> ELSE MonthlyTotals(FrameExpenses(df))

GetMonthlySpendingTrend(months) ==
    /\ result' = [op |-> "monthly_trend", months |-> months,
                  value |-> MonthlySpendingTrend(months)]
    /\ UNCHANGED <<transactions, budgets, today, sequences, requests>>

(***************************************************************************)
(* The monthly trend over expenses and income dated in the three months up *)
(* to today, on both sides of the 30-day window boundaries.                *)
(***************************************************************************)
TrendToday == MakeDate(2024, 7, 15)

TrendDates == {MakeDate(2024, 5, 10), MakeDate(2024, 6, 10),
               MakeDate(2024, 6, 15), MakeDate(2024, 7, 5)}
TrendAmounts == {10, 25}

InitTrend ==
    /\ transactions = <<>>
    /\ budgets = <<>>
    /\ today = TrendToday
    /\ result = NoResult
    /\ sequences = NoDeletions
    /\ requests = NoRequests

TrendCreateTransaction ==
    /\ Len(transactions) < MaxTrendTxns
    /\ \E d \in TrendDates, amount \in TrendAmounts, type \in TransactionTypes :
           CreateTransaction(d, amount, 1, type)

TrendGetMonthlySpendingTrend ==
    \E months \in 0..MaxTrendMonths : GetMonthlySpendingTrend(months)

NextTrend == TrendCreateTransaction \/ TrendGetMonthlySpendingTrend

SpecTrend == InitTrend /\ [][NextTrend]_vars

\* the amounts of the stored expense rows, summed row by row
RECURSIVE ExpenseSum(_)
ExpenseSum(n) ==
    IF n = 0 THEN 0
    ELSE (IF transactions[n].transaction_type = "expense"
          THEN transactions[n].amount ELSE 0) + ExpenseSum(n - 1)

\* every stored transaction is dated inside the window of the request
WindowCoversLedger(months) ==
    \A n \in DOMAIN transactions :
        /\ transactions[n].date >= today - 30 * months
        /\ transactions[n].date <= today

\* C4: when the requested window covers every stored transaction, the
\* monthly totals get_monthly_spending_trend returns add up to the sum of
\* the amounts of all expense rows.
C4_MonthlyTotalsSumToExpenses ==
    (result.op = "monthly_trend" /\ WindowCoversLedger(result.months)) =>
        SumAmounts(result.value) = ExpenseSum(Len(transactions))

\* expenses in two calendar months and an income row, all inside the window
C4_Witness ==
    /\ result.op = "monthly_trend"
    /\ WindowCoversLedger(result.months)
    /\ Len(result.value) = 2
    /\ \E n \in DOMAIN transactions : transactions[n].transaction_type = "income"

\* the full grouped series: the monthly expense totals of the whole ledger
FullMonthlySeries ==
    MonthlyTotals(SelectSeq(transactions, LAMBDA t : t.transaction_type = "expense"))

\* the last n entries of a sequence
LastEntries(seq, n) ==
    IF n >= Len(seq) THEN seq ELSE SubSeq(seq, Len(seq) - n + 1, Len(seq))

\* C5: asked for the last N months, the trend is the most recent N entries
\* of the full grouped monthly series, each the whole calendar month's
\* total, and not the totals of a 30 * N day window.
C5_TrendIsLastCalendarMonths ==
    result.op = "monthly_trend" =>
        result.value = LastEntries(FullMonthlySeries, result.months)

(***************************************************************************)
(* analytics.get_spending_patterns                                         *)
(***************************************************************************)
\* Series.mean() guarded by pd.notna: the mean, or 0 for an empty selection
MeanOrZero(rows) ==
    IF rows = <<>> THEN Rat(0, 1) ELSE TrueDiv(SumAmounts(rows), Len(rows))

\* groupby('day_name')['amount'].sum().to_dict(): a key for each day name
\* that occurs among the rows
ByDayOfWeek(rows) ==
    [name \in {DayName(rows[i].date) : i \in DOMAIN rows} |->
        SumAmounts(SelectSeq(rows, LAMBDA r : DayName(r.date) = name))]

\* pd.cut(day_of_month, bins=[0, 10, 20, 31], labels=[...])
MonthPeriodLabel(d) ==
    LET day == DateOf(d).day
    IN  IF day <= 10 THEN "Beginning" ELSE IF day <= 20 THEN "Middle" ELSE "End"

\* groupby('period', observed=False): every label of the categorical is a
\* key, an unobserved one with sum 0
ByMonthPeriod(rows) ==
    [label \in {"Beginning", "Middle", "End"} |->
        SumAmounts(SelectSeq(rows, LAMBDA r : MonthPeriodLabel(r.date) = label))]

\* dayofweek >= 5
IsWeekend(d) == DayOfWeek(d) >= 5

SpendingPatterns ==
    LET df == TransactionsToDataframe(None, None)
        df_expenses == FrameExpenses(df)
    IN  IF df = <<>> THEN [op |-> "spending_patterns", error |-> "No data available"]
        ELSE IF df_expenses = <<>>
        THEN [op |-> "spending_patterns", error |-> "No expense data available"]
        ELSE [op |-> "spending_patterns", error |-> "",
              weekday_avg |-> MeanOrZero(SelectSeq(df_expenses,
                                  LAMBDA r : ~IsWeekend(r.date))),
              weekend_avg |-> MeanOrZero(SelectSeq(df_expenses,
                                  LAMBDA r : IsWeekend(r.date))),
              by_day_of_week |-> ByDayOfWeek(df_expenses),
              by_month_period |-> ByMonthPeriod(df_expenses)]

GetSpendingPatterns ==
    /\ result' = SpendingPatterns
    /\ UNCHANGED <<transactions, budgets, today, sequences, requests>>

(***************************************************************************)
(* Spending patterns over expenses and income on a Monday, a Friday and a  *)
(* Saturday of one month.                                                  *)
(***************************************************************************)
PatternDates == {MakeDate(2024, 7, 1), MakeDate(2024, 7, 13), MakeDate(2024, 7, 26)}
PatternAmounts == {10, 25}

InitPatterns ==
    /\ transactions = <<>>
    /\ budgets = <<>>
    /\ today = MakeDate(2024, 7, 28)
    /\ result = NoResult
    /\ sequences = NoDeletions
    /\ requests = NoRequests

PatternsCreateTransaction ==
    /\ Len(transactions) < MaxPatternTxns
    /\ \E d \in PatternDates, amount \in PatternAmounts, type \in TransactionTypes :
           CreateTransaction(d, amount, 1, type)

NextPatterns == PatternsCreateTransaction \/ GetSpendingPatterns

SpecPatterns == InitPatterns /\ [][NextPatterns]_vars

WeekdayNames == {DayNames[i] : i \in DOMAIN DayNames}

\* some stored expense falls on the weekday called name
ExpenseOn(name) ==
    \E n \in DOMAIN transactions :
        /\ transactions[n].transaction_type = "expense"
        /\ DayNames[(transactions[n].date % 7) + 1] = name

\* C8: whenever the day-of-week pattern is returned, it has exactly the 7
\* weekday names as keys, with 0 for every weekday without an expense.
C8_PatternHasSevenDays ==
    (result.op = "spending_patterns" /\ result.error = "") =>
        /\ DOMAIN result.by_day_of_week = WeekdayNames
        /\ \A name \in WeekdayNames :
               ~ExpenseOn(name) => result.by_day_of_week[name] = 0

(***************************************************************************)
(* analytics.get_top_spending_categories                                   *)
(***************************************************************************)
\* groupby('category')['amount'].sum(): category name -> total
CategoryTotals(rows) ==
    [name \in {rows[i].category : i \in DOMAIN rows} |->
        SumAmounts(SelectSeq(rows, LAMBDA r : r.category = name))]

\* the orders of the keys of totals in which no total is below a later one
DescendingOrders(totals) ==
    LET names == DOMAIN totals
        n == Cardinality(names)
    IN  {order \in [1..n -> names] :
            /\ \A i, j \in 1..n : i # j => order[i] # order[j]
            /\ \A i, j \in 1..n : i < j => totals[order[i]] >= totals[order[j]]}

\* DescendingOrders with the totals ascending
AscendingOrders(totals) ==
    LET names == DOMAIN totals
        n == Cardinality(names)
    IN  {order \in [1..n -> names] :
            /\ \A i, j \in 1..n : i # j => order[i] # order[j]
            /\ \A i, j \in 1..n : i < j => totals[order[i]] <= totals[order[j]]}

\* .sort_values(ascending=False): the default kind is 'quicksort', which is
\* not a stable sort, so the order it leaves equal totals in is not fixed
SortValuesDescending(totals) == DescendingOrders(totals)

\* .head(n): the first n rows; for negative n, all but the last |n| rows
HeadRows(seq, n) ==
    IF n >= 0 THEN SubSeq(seq, 1, IF n < Len(seq) THEN n ELSE Len(seq))
    ELSE SubSeq(seq, 1, IF Len(seq) + n > 0 THEN Len(seq) + n ELSE 0)

\* the lists the function can return
TopSpendingCategories(limit, start_date, end_date) ==
    LET df == TransactionsToDataframe(start_date, end_date)
        totals == CategoryTotals(FrameExpenses(df))
    IN  IF df = <<>> THEN {<<>>}
        ELSE {HeadRows([i \in DOMAIN order |->
                          [category |-> order[i], amount |-> totals[order[i]]]],
                       limit) : order \in SortValuesDescending(totals)}

GetTopSpendingCategories(limit) ==
    /\ \E value \in TopSpendingCategories(limit, None, None) :
           result' = [op |-> "top_categories", limit |-> limit, value |-> value]
    /\ UNCHANGED <<transactions, budgets, today, sequences, requests>>

(***************************************************************************)
(* Top categories over expenses and income in three categories, with equal *)
(* and unequal totals, for limits (counts) below the number of categories. *)
(***************************************************************************)
TopAmounts == {10, 20, 30}

InitTop ==
    /\ transactions = <<>>
    /\ budgets = <<>>
    /\ today = MakeDate(2024, 7, 15)
    /\ result = NoResult
    /\ sequences = NoDeletions
    /\ requests = NoRequests

TopCreateTransaction ==
    /\ Len(transactions) < MaxTopTxns
    /\ \E amount \in TopAmounts, cid \in CategoryIds, type \in TransactionTypes :
           CreateTransaction(today, amount, cid, type)

TopGetTopSpendingCategories ==
    \E limit \in 0..MaxTopLimit : GetTopSpendingCategories(limit)

NextTop == TopCreateTransaction \/ TopGetTopSpendingCategories

SpecTop == InitTop /\ [][NextTop]_vars

\* the expense total of the category called name, summed row by row
RECURSIVE ExpenseTotalOf(_, _)
ExpenseTotalOf(name, n) ==
    IF n = 0 THEN 0
    ELSE (IF /\ transactions[n].transaction_type = "expense"
             /\ CategoryName(transactions[n].category_id) = name
          THEN transactions[n].amount ELSE 0) + ExpenseTotalOf(name, n - 1)

\* the names of the categories with at least one stored expense
SpendingCategoryNames ==
    {CategoryName(transactions[n].category_id) :
        n \in {m \in DOMAIN transactions : transactions[m].transaction_type = "expense"}}

ListedNames(value) == {value[i].category : i \in DOMAIN value}

\* one entry per category, each with the category's expense total, sorted
\* descending by amount, and nothing left out exceeds anything listed
IsTopList(value) ==
    /\ \A i, j \in DOMAIN value : i # j => value[i].category # value[j].category
    /\ \A i \in DOMAIN value :
           /\ value[i].category \in SpendingCategoryNames
           /\ value[i].amount = ExpenseTotalOf(value[i].category, Len(transactions))
    /\ \A i, j \in DOMAIN value : i < j => value[i].amount >= value[j].amount
    /\ \A name \in SpendingCategoryNames \ ListedNames(value) :
           \A i \in DOMAIN value :
               ExpenseTotalOf(name, Len(transactions)) <= value[i].amount

\* C6: the list get_top_spending_categories returns has at most limit
\* entries, one per category, sorted descending by amount, and no category
\* left out has a larger expense total than a listed one.
C6_TopCategoriesSorted ==
    result.op = "top_categories" =>
        /\ Len(result.value) <= result.limit
        /\ IsTopList(result.value)

\* three categories with expenses, two listed in strictly descending order
\* and the smallest cut off
C6_Witness ==
    /\ result.op = "top_categories"
    /\ result.limit = 2
    /\ Cardinality(SpendingCategoryNames) = 3
    /\ Len(result.value) = 2
    /\ result.value[1].amount > result.value[2].amount
    /\ \E name \in SpendingCategoryNames \ ListedNames(result.value) :
           ExpenseTotalOf(name, Len(transactions)) < result.value[2].amount

\* C7: categories with equal totals are listed by name ascending, so the
\* list, and which of two tied categories the limit keeps, is fixed by the
\* transactions.
C7_TiesByNameAscending ==
    result.op = "top_categories" =>
        /\ \A i, j \in DOMAIN result.value :
               (i < j /\ result.value[i].amount = result.value[j].amount)
                   => NameRank(result.value[i].category) < NameRank(result.value[j].category)
        /\ \A name \in SpendingCategoryNames \ ListedNames(result.value) :
               \A i \in DOMAIN result.value :
                   ExpenseTotalOf(name, Len(transactions)) = result.value[i].amount
                       => NameRank(result.value[i].category) < NameRank(name)

(***************************************************************************)
(* analytics.get_unusual_spending                                          *)
(***************************************************************************)
StdThreshold == 2
MinRowsForOutliers == 5

RECURSIVE SumSquares(_)
SumSquares(rows) ==
    IF rows = <<>> THEN 0
    ELSE Head(rows).amount * Head(rows).amount + SumSquares(Tail(rows))

\* groupby('category')['amount'].agg(['mean', 'std']), kept as the count,
\* the sum and the sum of squares of each category's amounts:
\*   mean = sum / n,  std^2 = (n * squares - sum^2) / (n * (n - 1)),
\* std being NaN for n = 1 (pandas' std is the sample deviation, ddof = 1)
CategoryStats(rows) ==
    [name \in {rows[i].category : i \in DOMAIN rows} |->
        LET own == SelectSeq(rows, LAMBDA r : r.category = name)
        IN  [n |-> Len(own), sum |-> SumAmounts(own), squares |-> SumSquares(own)]]

\* n * (n - 1) * std^2
ScaledVariance(st) == st.n * st.squares - st.sum * st.sum

\* pd.notna(std) and std > 0
StdIsPositive(st) == st.n >= 2 /\ ScaledVariance(st) > 0

\* z_score = (amount - mean) / std, as its sign and its square
\*   z^2 = (n * amount - sum)^2 * (n - 1) / (n * (n * squares - sum^2))
ZScore(amount, st) ==
    LET dev == st.n * amount - st.sum
    IN  [sign |-> IF dev > 0 THEN 1 ELSE IF dev < 0 THEN 0 - 1 ELSE 0,
         square |-> Rat(dev * dev * (st.n - 1), st.n * ScaledVariance(st))]

\* ExceedsThreshold with the comparison turned round
BelowThreshold(z, threshold) ==
    z.square.num < threshold * threshold * z.square.den

\* ExceedsThreshold without abs(): z_score > std_threshold
ExceedsThresholdSigned(z, threshold) ==
    z.sign > 0 /\ z.square.num > threshold * threshold * z.square.den

\* abs(z_score) > std_threshold
\* ExceedsThreshold against half the threshold
ExceedsHalfThreshold(z, threshold) ==
    4 * z.square.num > threshold * threshold * z.square.den

ExceedsThreshold(z, threshold) ==
    z.square.num > threshold * threshold * z.square.den

\* the loop over the expense rows, in frame order
UnusualAmong(df_expenses, threshold) ==
    LET stats == CategoryStats(df_expenses)
        flagged == SelectSeq(df_expenses,
                       LAMBDA r : /\ StdIsPositive(stats[r.category])
                                  /\ ExceedsThreshold(ZScore(r.amount, stats[r.category]),
                                                      threshold))
    IN  [i \in DOMAIN flagged |->
            [id |-> flagged[i].id, date |-> flagged[i].date,
             amount |-> flagged[i].amount, category |-> flagged[i].category,
             z_score |-> ZScore(flagged[i].amount, stats[flagged[i].category])]]

\* UnusualSpending with its row count taken over the expense rows
UnusualSpendingCountingExpenses(threshold) ==
    LET df == TransactionsToDataframe(None, None)
    IN  IF df = <<>> \/ Len(FrameExpenses(df)) < MinRowsForOutliers THEN <<>>
        ELSE UnusualAmong(FrameExpenses(df), threshold)

UnusualSpending(threshold) ==
    LET df == TransactionsToDataframe(None, None)
    IN  IF df = <<>> \/ Len(df) < MinRowsForOutliers THEN <<>>
        ELSE UnusualAmong(FrameExpenses(df), threshold)

\* the endpoint calls it with the default std_threshold
GetUnusualSpending ==
    /\ result' = [op |-> "unusual_spending", value |-> UnusualSpending(StdThreshold)]
    /\ UNCHANGED <<transactions, budgets, today, sequences, requests>>

(***************************************************************************)
(* Outlier detection over up to MaxUnusualTxns rows: Food & Dining         *)
(* expenses of 50 and 200, Food & Dining income of 200 and Home & Rent     *)
(* expenses of 200.                                                        *)
(***************************************************************************)
UnusualInputs == {<<50, 1, "expense">>, <<200, 1, "expense">>,
                  <<200, 1, "income">>, <<200, 10, "expense">>}

InitUnusual ==
    /\ transactions = <<>>
    /\ budgets = <<>>
    /\ today = MakeDate(2024, 7, 15)
    /\ result = NoResult
    /\ sequences = NoDeletions
    /\ requests = NoRequests

UnusualCreateTransaction ==
    /\ Len(transactions) < MaxUnusualTxns
    /\ \E input \in UnusualInputs :
           CreateTransaction(today, input[1], input[2], input[3])

NextUnusual == UnusualCreateTransaction \/ GetUnusualSpending

SpecUnusual == InitUnusual /\ [][NextUnusual]_vars

\* the stored expenses of category cid, as a set of row numbers
ExpensesOf(cid) ==
    {n \in DOMAIN transactions :
        /\ transactions[n].transaction_type = "expense"
        /\ transactions[n].category_id = cid}

RECURSIVE SumOfRows(_)
SumOfRows(S) ==
    IF S = {} THEN 0
    ELSE LET n == CHOOSE x \in S : TRUE
         IN  transactions[n].amount + SumOfRows(S \ {n})

\* the squared deviations from the mean of the rows S, times Cardinality(S)^2
RECURSIVE ScaledSquaredDeviations(_, _, _)
ScaledSquaredDeviations(S, count, sum) ==
    IF S = {} THEN 0
    ELSE LET n == CHOOSE x \in S : TRUE
             dev == count * transactions[n].amount - sum
         IN  dev * dev + ScaledSquaredDeviations(S \ {n}, count, sum)

\* row k is an expense whose category has at least 2 expenses with sample
\* deviation std > 0 and |amount - mean| / std > 2; over S, the category's
\* expenses, with N = |S|:  std^2 = (sum of (x - mean)^2) / (N - 1)
IsOutlier(k) ==
    /\ transactions[k].transaction_type = "expense"
    /\ LET S == ExpensesOf(transactions[k].category_id)
           count == Cardinality(S)
           sum == SumOfRows(S)
           ssd == ScaledSquaredDeviations(S, count, sum)
           dev == count * transactions[k].amount - sum
       IN  /\ count >= 2
           /\ ssd > 0
           /\ dev * dev * (count - 1) > 4 * ssd

FlaggedIds == {result.value[i].id : i \in DOMAIN result.value}

\* C9: get_unusual_spending flags a transaction exactly when it is an
\* expense whose category has at least 2 expenses, a sample standard
\* deviation that is defined and > 0, and |amount - mean| / std > 2.0;
\* income is never flagged, and each flagged row is listed once.
C9_FlaggedIffZScoreAboveTwo ==
    result.op = "unusual_spending" =>
        /\ FlaggedIds = {transactions[k].id : k \in {n \in DOMAIN transactions : IsOutlier(n)}}
        /\ Cardinality(FlaggedIds) = Len(result.value)

\* an expense is flagged while its category also holds an income row
C9_Witness ==
    /\ result.op = "unusual_spending"
    /\ \E i \in DOMAIN result.value :
           \E n \in DOMAIN transactions :
               /\ transactions[n].transaction_type = "income"
               /\ CategoryName(transactions[n].category_id) = result.value[i].category


\* C28: at the default threshold 2.0 no flagged transaction belongs to a
\* category with fewer than 6 expense transactions.
C28_NoFlagUnderSixExpenses ==
    result.op = "unusual_spending" =>
        \A i \in DOMAIN result.value :
            \A n \in DOMAIN transactions :
                transactions[n].id = result.value[i].id =>
                    Cardinality(ExpensesOf(transactions[n].category_id)) >= 6

\* an expense is flagged in a category of exactly six expenses
C28_Witness ==
    /\ result.op = "unusual_spending"
    /\ \E i \in DOMAIN result.value :
           \E n \in DOMAIN transactions :
               /\ transactions[n].id = result.value[i].id
               /\ Cardinality(ExpensesOf(transactions[n].category_id)) = 6

(***************************************************************************)
(* The outlier scenario: a Food & Dining history from an earlier month,    *)
(* then Food & Dining expenses of 50, 200 and 55 in the current month.     *)
(***************************************************************************)
HistoryAmounts == {49, 52, 55}
CurrentAmounts == {50, 200, 55}
HistoryDate == MakeDate(2024, 6, 10)

InitScenario ==
    /\ \E k \in 0..MaxHistoryTxns :
           \E amounts \in [1..k -> HistoryAmounts] :
               transactions = [i \in 1..k |->
                                  TransactionRow(i, HistoryDate, amounts[i], 1, "expense")]
    /\ budgets = <<>>
    /\ today = MakeDate(2024, 7, 15)
    /\ result = NoResult
    /\ sequences = NoDeletions
    /\ requests = NoRequests

\* the Food & Dining expenses of the current month, and the earlier ones
CurrentRows ==
    {n \in ExpensesOf(1) : transactions[n].date >= StartOfMonth(today)}

HistoryRows == ExpensesOf(1) \ CurrentRows

ScenarioCreateTransaction ==
    /\ Cardinality(CurrentRows) < MaxCurrentTxns
    /\ \E amount \in CurrentAmounts : CreateTransaction(today, amount, 1, "expense")

NextScenario == ScenarioCreateTransaction \/ GetUnusualSpending

SpecScenario == InitScenario /\ [][NextScenario]_vars

\* the squared deviations of the rows S from the value center
RECURSIVE SquaredDeviationsFrom(_, _)
SquaredDeviationsFrom(S, center) ==
    IF S = {} THEN 0
    ELSE LET n == CHOOSE x \in S : TRUE
             dev == transactions[n].amount - center
         IN  dev * dev + SquaredDeviationsFrom(S \ {n}, center)

\* the history has mean 52 and sample standard deviation 3
HistoryMean52Std3 ==
    /\ Cardinality(HistoryRows) >= 2
    /\ SumOfRows(HistoryRows) = 52 * Cardinality(HistoryRows)
    /\ SquaredDeviationsFrom(HistoryRows, 52) = 3 * 3 * (Cardinality(HistoryRows) - 1)

\* the current month holds exactly one expense each of 50, 200 and 55
CurrentIs50And200And55 ==
    /\ Cardinality(CurrentRows) = 3
    /\ \A amount \in CurrentAmounts :
           \E n \in CurrentRows : transactions[n].amount = amount

MaxPredictTxns == 6
MaxSeriesTxns == 12

DaysPerMonthBack == 30

\* category_id None; `if category_id:` is also false for 0
NoCategory == 0

\* Python None as a returned value
PyNone == [none |-> TRUE]

\* the expenses dated in [today - months_back * 30, today], of the category
\* when one is given, in table order
SpendingRows(category_id, months_back) ==
    SelectSeq(transactions,
        LAMBDA t : /\ t.date >= today - months_back * DaysPerMonthBack
                   /\ t.date <= today
                   /\ t.transaction_type = "expense"
                   /\ (category_id # NoCategory => t.category_id = category_id))

\* groupby('month') sum, month_num = 0, 1, 2, ... in month order; the empty
\* frame when no row matches
MonthlySpendingData(category_id, months_back) ==
    LET rows == SpendingRows(category_id, months_back)
        months == Ascending({MonthPeriod(rows[i].date) : i \in DOMAIN rows})
    IN  [k \in DOMAIN months |->
            [month |-> months[k],
             amount |-> SumAmounts(SelectSeq(rows,
                            LAMBDA r : MonthPeriod(r.date) = months[k])),
             month_num |-> k - 1]]

(***************************************************************************)
(* sklearn LinearRegression on (month_num, amount), in exact arithmetic.   *)
(***************************************************************************)
RECURSIVE GCD(_, _)
GCD(a, b) == IF b = 0 THEN a ELSE GCD(b, a % b)

Abs(a) == IF a < 0 THEN -a ELSE a

\* a fraction in lowest terms with a positive denominator
Reduce(r) ==
    LET g == GCD(Abs(r.num), Abs(r.den))
    IN  IF r.err \/ g = 0 THEN r
        ELSE IF r.den < 0 THEN Rat(-(r.num \div g), -(r.den \div g))
        ELSE Rat(r.num \div g, r.den \div g)

\* a ** p, with a ** 0 = 1
Pow(a, p) == IF p = 0 THEN 1 ELSE a ^ p

\* sum of x^p * y^q over the rows, x = month_num and y = amount
RECURSIVE PowerSum(_, _, _)
PowerSum(df, p, q) ==
    IF df = <<>> THEN 0
    ELSE Pow(Head(df).month_num, p) * Pow(Head(df).amount, q)
             + PowerSum(Tail(df), p, q)

\* n * (centred sums of squares and products)
Cxx(df) == Len(df) * PowerSum(df, 2, 0) - PowerSum(df, 1, 0) * PowerSum(df, 1, 0)
Cxy(df) == Len(df) * PowerSum(df, 1, 1) - PowerSum(df, 1, 0) * PowerSum(df, 0, 1)
Cyy(df) == Len(df) * PowerSum(df, 0, 2) - PowerSum(df, 0, 1) * PowerSum(df, 0, 1)

\* model.coef_[0]
LinearSlope(df) == Reduce(TrueDiv(Cxy(df), Cxx(df)))

\* model.predict([[x]])[0] = mean(y) + slope * (x - mean(x))
LinearPredict(df, x) ==
    LET b == LinearSlope(df)
        n == Len(df)
    IN  Reduce(TrueDiv(PowerSum(df, 0, 1) * b.den
                           + b.num * (n * x - PowerSum(df, 1, 0)),
                       n * b.den))

\* model.score(X, y): R^2 of the fit; 1.0 for a constant series, which the
\* fit reproduces exactly
LinearScore(df) ==
    IF Cyy(df) = 0 THEN Rat(1, 1)
    ELSE LET b == LinearSlope(df)
         IN  Reduce(TrueDiv(b.num * Cxy(df), b.den * Cyy(df)))

\* r >= tenths / 10
AtLeastTenths(r, tenths) == 10 * r.num >= tenths * r.den

\* max(0, x) left out
Unclamped(r) == r

\* max(0, x)
ClampAtZero(r) == IF r.num < 0 THEN Rat(0, 1) ELSE r

(***************************************************************************)
(* ml_predictions.predict_next_month_spending                              *)
(***************************************************************************)
Confidence(df) ==
    IF Len(df) >= 12 /\ AtLeastTenths(LinearScore(df), 7) THEN "high"
    ELSE IF Len(df) >= 6 /\ AtLeastTenths(LinearScore(df), 5) THEN "medium"
    ELSE "low"

Trend(df) ==
    IF RatGreater(LinearSlope(df), Rat(10, 1)) THEN "increasing"
    ELSE IF RatGreater(Rat(-10, 1), LinearSlope(df)) THEN "decreasing"
    ELSE "stable"

\* the returned dict for fewer than 3 monthly data points
InsufficientData ==
    [error |-> "Insufficient data for prediction (need at least 3 months)",
     predicted_amount |-> PyNone, confidence |-> "none"]

\* InsufficientMonths asking for two months only
InsufficientMonthsUnderTwo(df) == df = <<>> \/ Len(df) < 2

\* df.empty or len(df) < 3
InsufficientMonths(df) == df = <<>> \/ Len(df) < 3

PredictNextMonthSpending(category_id) ==
    LET df == MonthlySpendingData(category_id, 12)
    IN  IF InsufficientMonths(df) THEN InsufficientData
        ELSE [predicted_amount |-> ClampAtZero(LinearPredict(df, Len(df))),
              confidence |-> Confidence(df),
              trend |-> Trend(df),
              model_accuracy |-> LinearScore(df),
              data_points |-> Len(df)]

PredictNextMonth(category_id) ==
    /\ result' = [op |-> "predict_next_month", category_id |-> category_id,
                  raised |-> "", value |-> PredictNextMonthSpending(category_id)]
    /\ UNCHANGED <<transactions, budgets, today, sequences, requests>>

(***************************************************************************)
(* PolynomialFeatures(degree=2) followed by LinearRegression: the least    *)
(* squares parabola through (month_num, amount), by Cramer's rule on the   *)
(* normal equations.  The month numbers 0..n-1 are distinct and n >= 6     *)
(* where it is used, so the determinant is positive.                       *)
(***************************************************************************)
Det3(a, b, c, d, e, f, g, h, i) ==
    a * (e * i - f * h) - b * (d * i - f * g) + c * (d * h - e * g)

NormalDet(df) ==
    Det3(PowerSum(df, 0, 0), PowerSum(df, 1, 0), PowerSum(df, 2, 0),
         PowerSum(df, 1, 0), PowerSum(df, 2, 0), PowerSum(df, 3, 0),
         PowerSum(df, 2, 0), PowerSum(df, 3, 0), PowerSum(df, 4, 0))

\* the numerators of the three coefficients (constant, x, x^2)
Coef0Num(df) ==
    Det3(PowerSum(df, 0, 1), PowerSum(df, 1, 0), PowerSum(df, 2, 0),
         PowerSum(df, 1, 1), PowerSum(df, 2, 0), PowerSum(df, 3, 0),
         PowerSum(df, 2, 1), PowerSum(df, 3, 0), PowerSum(df, 4, 0))

Coef1Num(df) ==
    Det3(PowerSum(df, 0, 0), PowerSum(df, 0, 1), PowerSum(df, 2, 0),
         PowerSum(df, 1, 0), PowerSum(df, 1, 1), PowerSum(df, 3, 0),
         PowerSum(df, 2, 0), PowerSum(df, 2, 1), PowerSum(df, 4, 0))

Coef2Num(df) ==
    Det3(PowerSum(df, 0, 0), PowerSum(df, 1, 0), PowerSum(df, 0, 1),
         PowerSum(df, 1, 0), PowerSum(df, 2, 0), PowerSum(df, 1, 1),
         PowerSum(df, 2, 0), PowerSum(df, 3, 0), PowerSum(df, 2, 1))

\* model.fit(X_poly, y): the fitted parabola as its three numerators and the
\* common denominator
QuadraticFit(df) ==
    [c0 |-> Coef0Num(df), c1 |-> Coef1Num(df), c2 |-> Coef2Num(df),
     det |-> NormalDet(df)]

\* model.predict(poly.transform([[x]]))[0]
QuadraticPredict(fit, x) ==
    Reduce(TrueDiv(fit.c0 + fit.c1 * x + fit.c2 * x * x, fit.det))

(***************************************************************************)
(* ml_predictions.predict_spending_with_seasonality and forecast_next_year *)
(* (the seasonal confidence and model_accuracy come from the R^2 of the    *)
(* parabola and are left out of the returned record)                       *)
(***************************************************************************)
\* TooFewForSeasonality asking for three months only
TooFewUnderThree(df) == df = <<>> \/ Len(df) < 3

\* df.empty or len(df) < 6
TooFewForSeasonality(df) == df = <<>> \/ Len(df) < 6

PredictSpendingWithSeasonality(category_id) ==
    LET df == MonthlySpendingData(category_id, 24)
        next_month_num == Len(df)
        model == QuadraticFit(df)
    IN  IF TooFewForSeasonality(df) THEN PredictNextMonthSpending(category_id)
        ELSE [predicted_next_month |->
                  ClampAtZero(QuadraticPredict(model, next_month_num)),
              predicted_3_months |->
                  [i \in 1..3 |->
                      ClampAtZero(QuadraticPredict(model, next_month_num + i))],
              data_points |-> Len(df),
              uses_seasonality |-> TRUE]

PredictWithSeasonality(category_id) ==
    /\ result' = [op |-> "predict_with_seasonality",
                  category_id |-> category_id, raised |-> "",
                  value |-> PredictSpendingWithSeasonality(category_id)]
    /\ UNCHANGED <<transactions, budgets, today, sequences, requests>>

RECURSIVE SumRats(_)
SumRats(seq) ==
    IF seq = <<>> THEN Rat(0, 1)
    ELSE LET r == SumRats(Tail(seq))
         IN  Reduce(TrueDiv(Head(seq).num * r.den + r.num * Head(seq).den,
                            Head(seq).den * r.den))

ForecastNextYearDict ==
    LET df == MonthlySpendingData(NoCategory, 24)
        model == QuadraticFit(df)
        predictions == [i \in 1..12 |->
                           ClampAtZero(QuadraticPredict(model, Len(df) + i - 1))]
        total == SumRats(predictions)
    IN  IF df = <<>> \/ Len(df) < 6
        THEN [error |-> "Insufficient data for yearly forecast"]
        ELSE [total_predicted_spending |-> total,
              avg_monthly_spending |-> Reduce(TrueDiv(total.num, total.den * 12)),
              monthly_predictions |-> predictions,
              confidence |-> IF Len(df) >= 12 THEN "medium" ELSE "low",
              based_on_months |-> Len(df)]

ForecastNextYear ==
    /\ result' = [op |-> "forecast_next_year", category_id |-> NoCategory,
                  raised |-> "", value |-> ForecastNextYearDict]
    /\ UNCHANGED <<transactions, budgets, today, sequences, requests>>

(***************************************************************************)
(* The prediction endpoints over a ledger with one transaction a month.    *)
(***************************************************************************)
PredictToday == MakeDate(2024, 12, 15)
PredictInputs == {<<10, 1>>, <<100, 1>>, <<100, 10>>}
PredictScopes == {NoCategory, 1, 10}

InitPredict ==
    /\ transactions = <<>>
    /\ budgets = <<>>
    /\ today = PredictToday
    /\ result = NoResult
    /\ sequences = NoDeletions
    /\ requests = NoRequests

\* an expense on the 10th of the month after the last recorded one
PredictCreateTransaction ==
    /\ Len(transactions) < MaxPredictTxns
    /\ \E input \in PredictInputs :
           CreateTransaction(MakeDate(2024, Len(transactions) + 1, 10),
                             input[1], input[2], "expense")

NextPredict ==
    \/ PredictCreateTransaction
    \/ \E category_id \in PredictScopes : PredictNextMonth(category_id)
    \/ \E category_id \in PredictScopes : PredictWithSeasonality(category_id)
    \/ ForecastNextYear

SpecPredict == InitPredict /\ [][NextPredict]_vars

\* the calendar months in which the scope has an expense
ScopeMonths(category_id) ==
    {MonthPeriod(transactions[n].date) :
        n \in {k \in DOMAIN transactions :
                  /\ transactions[k].transaction_type = "expense"
                  /\ category_id # NoCategory =>
                         transactions[k].category_id = category_id}}

\* C11: with fewer than 3 monthly data points in the requested scope (none
\* included), predict_next_month_spending does not raise and returns the
\* structured insufficient-data result: an error entry, a confidence of
\* "none" or "low", and a predicted amount that is absent or not negative.
C11_InsufficientDataResult ==
    (/\ result.op = "predict_next_month"
     /\ Cardinality(ScopeMonths(result.category_id)) < 3) =>
        /\ result.raised = ""
        /\ "error" \in DOMAIN result.value
        /\ result.value.confidence \in {"none", "low"}
        /\ \/ result.value.predicted_amount = PyNone
           \/ result.value.predicted_amount.num >= 0

\* a category scope with two monthly points in a ledger of four transactions
C11_Witness ==
    /\ result.op = "predict_next_month"
    /\ result.category_id = 1
    /\ Len(transactions) = 4
    /\ Cardinality(ScopeMonths(1)) = 2
    /\ result.value.confidence = "none"
    /\ result.value.predicted_amount = PyNone

\* C13: every amount the three predictors return is >= 0: predicted_amount,
\* predicted_next_month and each of predicted_3_months, and each of the 12
\* monthly_predictions with their total and average.
C13_PredictionsNonNegative ==
    /\ result.op \in {"predict_next_month", "predict_with_seasonality"} =>
           /\ "predicted_amount" \in DOMAIN result.value =>
                  \/ result.value.predicted_amount = PyNone
                  \/ result.value.predicted_amount.num >= 0
           /\ "predicted_next_month" \in DOMAIN result.value =>
                  /\ result.value.predicted_next_month.num >= 0
                  /\ \A i \in 1..3 : result.value.predicted_3_months[i].num >= 0
    /\ (result.op = "forecast_next_year"
            /\ "monthly_predictions" \in DOMAIN result.value) =>
           /\ \A i \in 1..12 : result.value.monthly_predictions[i].num >= 0
           /\ result.value.total_predicted_spending.num >= 0
           /\ result.value.avg_monthly_spending.num >= 0

\* a seasonal prediction whose parabola is below zero three months ahead and
\* above zero next month
C13_Witness ==
    /\ result.op = "predict_with_seasonality"
    /\ "predicted_next_month" \in DOMAIN result.value
    /\ result.value.predicted_next_month.num > 0
    /\ LET df == MonthlySpendingData(result.category_id, 24)
       IN  QuadraticPredict(QuadraticFit(df), Len(df) + 3).num < 0
    /\ result.value.predicted_3_months[3].num = 0


\* C26: predict_spending_with_seasonality over fewer than 6 monthly points
\* returns exactly what predict_next_month_spending returns for the same
\* ledger and category; over 6 or more it returns the prediction of the
\* degree-2 polynomial, marked uses_seasonality.
C26_SeasonalFallsBackUnderSixMonths ==
    result.op = "predict_with_seasonality" =>
        LET months == Cardinality(ScopeMonths(result.category_id))
            df == MonthlySpendingData(result.category_id, 24)
        IN  IF months < 6
            THEN result.value = PredictNextMonthSpending(result.category_id)
            ELSE /\ result.value.uses_seasonality
                 /\ result.value.data_points = months
                 /\ result.value.predicted_next_month =
                        ClampAtZero(QuadraticPredict(QuadraticFit(df), months))

\* the seasonal endpoint answered over five months with the linear
\* prediction
C26_Witness ==
    /\ result.op = "predict_with_seasonality"
    /\ Cardinality(ScopeMonths(result.category_id)) = 5
    /\ result.value.data_points = 5
    /\ result.value.trend \in {"increasing", "decreasing", "stable"}

(***************************************************************************)
(* The linear scenario: one expense a month from January 2024, the k-th    *)
(* month's of 100 + 20 * (k - 1), and a prediction asked in January 2025.  *)
(***************************************************************************)
SeriesTodays == {MakeDate(2025, 1, 1), MakeDate(2025, 1, 9),
                 MakeDate(2025, 1, 10), MakeDate(2025, 1, 31)}
SeriesDays == {1, 15}

\* the first day of the k-th month counted from January 2024
SeriesMonthStart(k) == MakeDate(2024 + (k - 1) \div 12, ((k - 1) % 12) + 1, 1)

SeriesAmount(k) == 100 + 20 * (k - 1)

InitSeries ==
    /\ transactions = <<>>
    /\ budgets = <<>>
    /\ today \in SeriesTodays
    /\ result = NoResult
    /\ sequences = NoDeletions
    /\ requests = NoRequests

SeriesCreateTransaction ==
    /\ Len(transactions) < MaxSeriesTxns
    /\ \E day \in SeriesDays :
           LET k == Len(transactions) + 1
           IN  CreateTransaction(SeriesMonthStart(k) + day - 1,
                                 SeriesAmount(k), 1, "expense")

NextSeries ==
    \/ SeriesCreateTransaction
    \/ PredictNextMonth(NoCategory)

SpecSeries == InitSeries /\ [][NextSeries]_vars

\* the expense total of the k-th month counted from January 2024
RECURSIVE MonthExpenseTotal(_, _)
MonthExpenseTotal(k, n) ==
    IF n = 0 THEN 0
    ELSE MonthExpenseTotal(k, n - 1)
         + (IF /\ transactions[n].transaction_type = "expense"
               /\ transactions[n].date >= SeriesMonthStart(k)
               /\ transactions[n].date < SeriesMonthStart(k + 1)
            THEN transactions[n].amount ELSE 0)

\* twelve consecutive months rising by 20 from 100, nothing after them, and
\* today in the month that follows
IsLinearSeries ==
    /\ \A k \in 1..12 : MonthExpenseTotal(k, Len(transactions)) = 100 + 20 * (k - 1)
    /\ \A n \in DOMAIN transactions : transactions[n].date < SeriesMonthStart(13)
    /\ today >= SeriesMonthStart(13)
    /\ today < SeriesMonthStart(14)

\* C12: for twelve consecutive monthly expense totals 100, 120, ..., 320 and
\* any today in the following month, predict_next_month_spending returns
\* trend "increasing", confidence "high" and predicted_amount 340.
C12_LinearSeriesPrediction ==
    (/\ result.op = "predict_next_month"
     /\ result.category_id = NoCategory
     /\ IsLinearSeries) =>
        /\ "trend" \in DOMAIN result.value
        /\ result.value.trend = "increasing"
        /\ result.value.confidence = "high"
        /\ result.value.predicted_amount = Rat(340, 1)

(***************************************************************************)
(* ml_predictions.predict_budget_exhaustion                                *)
(***************************************************************************)
MaxExhaustionTxns == 3

\* crud.get_budget_by_category_id: .first(), the index of the budget or 0
BudgetByCategoryId(category_id) ==
    IF \E i \in DOMAIN budgets : budgets[i].category_id = category_id
    THEN CHOOSE i \in DOMAIN budgets :
             /\ budgets[i].category_id = category_id
             /\ \A j \in 1..(i - 1) : budgets[j].category_id # category_id
    ELSE 0

\* the query: this month's expenses of the category up to today
CategoryMonthExpenses(category_id) ==
    SelectSeq(transactions,
        LAMBDA t : /\ t.category_id = category_id
                   /\ t.transaction_type = "expense"
                   /\ t.date >= StartOfMonth(today)
                   /\ t.date <= today)

\* the last day of today's month, with December's own branch
LastDayOfMonth(d) ==
    IF DateOf(d).month = 12
    THEN MakeDate(DateOf(d).year + 1, 1, 1) - 1
    ELSE MakeDate(DateOf(d).year, DateOf(d).month + 1, 1) - 1

\* int(x) for x >= 0
IntOf(r) == r.num \div r.den

\* the float infinity
Infinity == [err |-> FALSE, inf |-> TRUE]

\* remaining_budget / daily_rate if daily_rate > 0 else float('inf')
DaysUntilExhaustion(remaining_budget, daily_rate) ==
    IF daily_rate.num > 0
    THEN Reduce(TrueDiv(remaining_budget * daily_rate.den, daily_rate.num))
    ELSE Infinity

\* the status returned once nothing remains, with the remainder's sign kept
ExhaustedSigned(remaining_budget) ==
    [budget_status |-> "exhausted", over_budget_by |-> remaining_budget]

\* the status returned once nothing remains
Exhausted(remaining_budget) ==
    [budget_status |-> "exhausted", over_budget_by |-> Abs(remaining_budget)]

\* the test for no rows left out
NoTransactionsUnchecked(rows) == FALSE

\* not transactions
NoTransactions(rows) == rows = <<>>

\* the function: the returned dict, or the exception int(inf) raises
BudgetExhaustion(category_id) ==
    LET b == BudgetByCategoryId(category_id)
        rows == CategoryMonthExpenses(category_id)
        current_spending == SumAmounts(rows)
        days_elapsed == (today - StartOfMonth(today)) + 1
        daily_rate == Reduce(TrueDiv(current_spending, days_elapsed))
        remaining_budget == budgets[b].monthly_limit - current_spending
        days_until_exhaustion == DaysUntilExhaustion(remaining_budget, daily_rate)
        exhaustion_date == today + IntOf(days_until_exhaustion)
        last_day == LastDayOfMonth(today)
    IN  IF b = 0
        THEN [raised |-> "", value |-> [error |-> "No budget set for this category"]]
        ELSE IF NoTransactions(rows)
        THEN [raised |-> "",
              value |-> [days_remaining |-> "N/A", exhaustion_date |-> PyNone,
                         message |-> "No spending this month yet"]]
        ELSE IF remaining_budget <= 0
        THEN [raised |-> "", value |-> Exhausted(remaining_budget)]
        ELSE IF days_until_exhaustion = Infinity
        THEN [raised |-> "OverflowError", value |-> PyNone]
        ELSE [raised |-> "",
              value |-> [budget_limit |-> budgets[b].monthly_limit,
                         current_spending |-> current_spending,
                         remaining_budget |-> remaining_budget,
                         daily_spending_rate |-> daily_rate,
                         days_until_exhaustion |-> IntOf(days_until_exhaustion),
                         exhaustion_date |-> IF exhaustion_date <= last_day
                                             THEN Some(exhaustion_date)
                                             ELSE PyNone,
                         will_exceed_budget |-> exhaustion_date <= last_day]]

PredictBudgetExhaustion(category_id) ==
    /\ result' = [op |-> "budget_exhaustion", category_id |-> category_id,
                  raised |-> BudgetExhaustion(category_id).raised,
                  value |-> BudgetExhaustion(category_id).value]
    /\ UNCHANGED <<transactions, budgets, today, sequences, requests>>

(***************************************************************************)
(* Budgets, this month's and last month's transactions, and the            *)
(* exhaustion endpoint near the end of a month.                            *)
(***************************************************************************)
ExhaustionTodays == {MakeDate(2024, 7, 30), MakeDate(2024, 12, 30)}

\* amount, category, days before today, kind
ExhaustionInputs ==
    {<<0, 1, 0, "expense">>, <<100, 1, 0, "expense">>, <<300, 1, 1, "expense">>,
     <<300, 1, 0, "income">>, <<300, 1, 30, "expense">>, <<100, 10, 0, "expense">>}

\* category, monthly limit
ExhaustionBudgets == {<<1, 300>>, <<1, 315>>, <<1, 1000>>, <<10, 315>>}

InitExhaustion ==
    /\ transactions = <<>>
    /\ budgets = <<>>
    /\ today \in ExhaustionTodays
    /\ result = NoResult
    /\ sequences = NoDeletions
    /\ requests = NoRequests

ExhaustionCreateTransaction ==
    /\ Len(transactions) < MaxExhaustionTxns
    /\ \E input \in ExhaustionInputs :
           CreateTransaction(today - input[3], input[1], input[2], input[4])

ExhaustionCreateBudget ==
    \E input \in ExhaustionBudgets : CreateBudget(input[1], input[2])

NextExhaustion ==
    \/ ExhaustionCreateTransaction
    \/ ExhaustionCreateBudget
    \/ \E category_id \in CategoryIds : PredictBudgetExhaustion(category_id)

SpecExhaustion == InitExhaustion /\ [][NextExhaustion]_vars

\* the limit of the category's budget
LimitOf(cid) ==
    budgets[CHOOSE i \in DOMAIN budgets : budgets[i].category_id = cid].monthly_limit

HasBudget(cid) == \E i \in DOMAIN budgets : budgets[i].category_id = cid

\* the category has an expense dated in the current month up to today
HasMonthExpense(cid) ==
    \E n \in DOMAIN transactions :
        /\ transactions[n].category_id = cid
        /\ transactions[n].transaction_type = "expense"
        /\ DateOf(transactions[n].date).year = DateOf(today).year
        /\ DateOf(transactions[n].date).month = DateOf(today).month
        /\ transactions[n].date <= today

MonthSpend(cid) == MonthToDateSpend(cid, Len(transactions))

\* C14: for a budgeted category whose current-month expenses sum to at least
\* the limit, predict_budget_exhaustion reports the status "exhausted" with an
\* overage of spend - limit and no exhaustion date.
C14_ExhaustedReportsOverage ==
    (/\ result.op = "budget_exhaustion"
     /\ HasBudget(result.category_id)
     /\ HasMonthExpense(result.category_id)
     /\ MonthSpend(result.category_id) >= LimitOf(result.category_id)) =>
        /\ result.raised = ""
        /\ "budget_status" \in DOMAIN result.value
        /\ result.value.budget_status = "exhausted"
        /\ result.value.over_budget_by =
               MonthSpend(result.category_id) - LimitOf(result.category_id)
        /\ "exhaustion_date" \notin DOMAIN result.value

\* 400 spent against a limit of 315
C14_Witness ==
    /\ result.op = "budget_exhaustion"
    /\ result.category_id = 1
    /\ HasBudget(1)
    /\ LimitOf(1) = 315
    /\ MonthSpend(1) = 400
    /\ result.value = [budget_status |-> "exhausted", over_budget_by |-> 85]

\* C15: predict_budget_exhaustion never raises, and for a budget with a
\* positive limit whose current-month expenses sum to 0 it returns the
\* "no spending yet" value with no exhaustion date.
C15_ExhaustionNeverRaises ==
    result.op = "budget_exhaustion" =>
        /\ result.raised = ""
        /\ (/\ HasBudget(result.category_id)
            /\ LimitOf(result.category_id) > 0
            /\ MonthSpend(result.category_id) = 0) =>
               /\ "exhaustion_date" \in DOMAIN result.value
               /\ result.value.exhaustion_date = PyNone

\* C16: with something remaining and a positive daily rate, will_exceed_budget
\* is true exactly when remaining / daily_rate is at most the days left in the
\* month, and the exhaustion date is given exactly then.
C16_ExceedsIffWithinMonth ==
    LET cid == result.category_id
        spent == MonthSpend(cid)
        remaining == LimitOf(cid) - spent
        days_elapsed == DateOf(today).day
        days_left == DaysInMonth(DateOf(today).year, DateOf(today).month)
                         - DateOf(today).day
        \* remaining / (spent / days_elapsed) <= days_left
        within == remaining * days_elapsed <= days_left * spent
    IN  (/\ result.op = "budget_exhaustion"
         /\ HasBudget(cid)
         /\ spent > 0
         /\ remaining > 0) =>
            /\ result.raised = ""
            /\ "will_exceed_budget" \in DOMAIN result.value
            /\ result.value.will_exceed_budget = within
            /\ (result.value.exhaustion_date # PyNone) = within

(***************************************************************************)
(* analytics.identify_savings_opportunities                                *)
(***************************************************************************)
MaxSavingsTxns == 3

\* the first date with date >= pd.Timestamp.now() - 30 days: dates are
\* midnights, so the 30th day back counts only when now is midnight itself
ThirtyDaysAgo(at_midnight) == IF at_midnight THEN today - 30 ELSE today - 29

\* {b.category_rel.name: b.monthly_limit for b in budgets}; a later budget of
\* the same name replaces an earlier one
BudgetDict ==
    [name \in {CategoryName(budgets[i].category_id) : i \in DOMAIN budgets} |->
        LET last == CHOOSE i \in DOMAIN budgets :
                        /\ CategoryName(budgets[i].category_id) = name
                        /\ \A j \in DOMAIN budgets :
                               CategoryName(budgets[j].category_id) = name => j <= i
        IN  budgets[last].monthly_limit]

\* the keys of a groupby, in ascending order of the name
SortedNames(totals) ==
    LET ranks == Ascending({NameRank(name) : name \in DOMAIN totals})
    IN  [k \in DOMAIN ranks |-> Categories[ranks[k]].name]

\* total_spent > limit * 0.75
OverThreshold(total_spent, limit) == 4 * total_spent > 3 * limit

\* max(0, total_spent - limit * 0.8)
PotentialSavings(total_spent, limit) ==
    IF 5 * total_spent - 4 * limit < 0 THEN Rat(0, 1)
    ELSE Reduce(Rat(5 * total_spent - 4 * limit, 5))

\* one appended dict; the recommendation text holds total_spent / limit
Opportunity(name, total_spent, limit) ==
    [category |-> name,
     current_period_spending |-> total_spent,
     budget_limit |-> limit,
     status |-> IF total_spent > limit THEN "Over Budget" ELSE "Approaching Limit",
     potential_savings |-> PotentialSavings(total_spent, limit),
     recommendation |-> TrueDiv(total_spent, limit)]

\* the loop over recent_spending.items()
RECURSIVE Opportunities(_, _)
Opportunities(names, totals) ==
    IF names = <<>> THEN <<>>
    ELSE LET name == Head(names)
             rest == Opportunities(Tail(names), totals)
         IN  IF name \in DOMAIN BudgetDict
                    /\ OverThreshold(totals[name], BudgetDict[name])
             THEN <<Opportunity(name, totals[name], BudgetDict[name])>> \o rest
             ELSE rest

\* sorted(..., key=spending / limit, reverse=True): stable, highest first
RECURSIVE InsertByUsage(_, _)
InsertByUsage(x, sorted) ==
    IF sorted = <<>> THEN <<x>>
    ELSE IF RatGreater(TrueDiv(x.current_period_spending, x.budget_limit),
                       TrueDiv(Head(sorted).current_period_spending,
                               Head(sorted).budget_limit))
    THEN <<x>> \o sorted
    ELSE <<Head(sorted)>> \o InsertByUsage(x, Tail(sorted))

RECURSIVE SortByUsage(_)
SortByUsage(rows) ==
    IF rows = <<>> THEN <<>>
    ELSE InsertByUsage(rows[Len(rows)],
                       SortByUsage(SubSeq(rows, 1, Len(rows) - 1)))

\* the function: the returned list, or the ZeroDivisionError of a zero limit
SavingsOpportunities(at_midnight) ==
    LET df == TransactionsToDataframe(None, None)
        df_expenses == SelectSeq(df,
                           LAMBDA r : /\ r.type = "expense"
                                      /\ r.date >= ThirtyDaysAgo(at_midnight))
        recent_spending == CategoryTotals(df_expenses)
        opportunities == Opportunities(SortedNames(recent_spending), recent_spending)
    IN  IF df = <<>> THEN [raised |-> "", value |-> <<>>]
        ELSE IF df_expenses = <<>> THEN [raised |-> "", value |-> <<>>]
        ELSE IF \E i \in DOMAIN opportunities : opportunities[i].recommendation.err
        THEN [raised |-> "ZeroDivisionError", value |-> <<>>]
        ELSE [raised |-> "", value |-> SortByUsage(opportunities)]

IdentifySavingsOpportunities(at_midnight) ==
    /\ result' = [op |-> "savings_opportunities", at_midnight |-> at_midnight,
                  raised |-> SavingsOpportunities(at_midnight).raised,
                  value |-> SavingsOpportunities(at_midnight).value]
    /\ UNCHANGED <<transactions, budgets, today, sequences, requests>>

(***************************************************************************)
(* Budgets, recent and older transactions, and the savings endpoint.       *)
(***************************************************************************)
SavingsToday == MakeDate(2024, 7, 15)

\* amount, category, days before today, kind
SavingsInputs ==
    {<<75, 1, 0, "expense">>, <<5, 1, 29, "expense">>, <<25, 1, 30, "expense">>,
     <<80, 1, 31, "expense">>, <<80, 1, 0, "income">>, <<90, 10, 0, "expense">>}

\* category, monthly limit
SavingsBudgets == {<<1, 100>>, <<1, 0>>, <<10, 100>>}

InitSavings ==
    /\ transactions = <<>>
    /\ budgets = <<>>
    /\ today = SavingsToday
    /\ result = NoResult
    /\ sequences = NoDeletions
    /\ requests = NoRequests

SavingsCreateTransaction ==
    /\ Len(transactions) < MaxSavingsTxns
    /\ \E input \in SavingsInputs :
           CreateTransaction(today - input[3], input[1], input[2], input[4])

SavingsCreateBudget ==
    \E input \in SavingsBudgets : CreateBudget(input[1], input[2])

NextSavings ==
    \/ SavingsCreateTransaction
    \/ SavingsCreateBudget
    \/ \E at_midnight \in BOOLEAN : IdentifySavingsOpportunities(at_midnight)

SpecSavings == InitSavings /\ [][NextSavings]_vars

\* the expense total of the category over the last 30 days
RECURSIVE RecentSpend(_, _, _)
RecentSpend(cid, at_midnight, n) ==
    IF n = 0 THEN 0
    ELSE RecentSpend(cid, at_midnight, n - 1)
         + (IF /\ transactions[n].transaction_type = "expense"
               /\ transactions[n].category_id = cid
               /\ \/ today - transactions[n].date < 30
                  \/ at_midnight /\ today - transactions[n].date = 30
            THEN transactions[n].amount ELSE 0)

\* the category has a budget and its recent expenses exceed 75% of the limit
NeedsSuggestion(cid, at_midnight) ==
    /\ HasBudget(cid)
    /\ 100 * RecentSpend(cid, at_midnight, Len(transactions)) > 75 * LimitOf(cid)

\* C17: identify_savings_opportunities returns exactly one suggestion for each
\* budgeted category whose recent expense total exceeds 75% of its limit, with
\* potential_savings = max(0, spent - 0.8 * limit), ordered by the share of the
\* budget used, highest first; with no budget or no such category the list is
\* empty.
C17_OneSuggestionPerCategoryOverThreshold ==
    result.op = "savings_opportunities" =>
        LET value == result.value
            spent(cid) == RecentSpend(cid, result.at_midnight, Len(transactions))
        IN  /\ result.raised = ""
            /\ \A cid \in CategoryIds :
                   Cardinality({i \in DOMAIN value :
                                   value[i].category = CategoryName(cid)})
                       = IF NeedsSuggestion(cid, result.at_midnight) THEN 1 ELSE 0
            /\ \A i \in DOMAIN value : \E cid \in CategoryIds :
                   /\ value[i].category = CategoryName(cid)
                   /\ LET over == 10 * spent(cid) - 8 * LimitOf(cid)
                      IN  10 * value[i].potential_savings.num
                              = (IF over > 0 THEN over ELSE 0)
                                    * value[i].potential_savings.den
            /\ \A i, j \in DOMAIN value : i < j =>
                   value[i].current_period_spending * value[j].budget_limit
                       >= value[j].current_period_spending * value[i].budget_limit

\* C18: identify_savings_opportunities does not raise when a budget has
\* monthly_limit = 0 and its category has positive spending in the last 30
\* days.
C18_ZeroLimitDoesNotRaise ==
    (/\ result.op = "savings_opportunities"
     /\ \E cid \in CategoryIds :
            /\ HasBudget(cid)
            /\ LimitOf(cid) = 0
            /\ RecentSpend(cid, result.at_midnight, Len(transactions)) > 0) =>
        result.raised = ""

(***************************************************************************)
(* A transaction whose category_id matches no Category row.                *)
(* crud.create_transaction takes the id as given; on a database that does  *)
(* not enforce the foreign key (SQLite's default) the commit succeeds and   *)
(* Transaction.category_rel is None for that row.                          *)
(***************************************************************************)
MaxDanglingTxns == 3

\* an id that no Category row carries
MissingCategoryId == 99

\* Transaction.category_rel: the Category row, or None
CategoryRel(cid) ==
    IF cid \in CategoryIds
    THEN Categories[CHOOSE i \in DOMAIN Categories : Categories[i].id = cid]
    ELSE PyNone

\* transactions_to_dataframe(db): the frame, or the AttributeError that
\* t.category_rel.name raises when category_rel is None
LedgerView ==
    IF \E i \in DOMAIN transactions :
           CategoryRel(transactions[i].category_id) = PyNone
    THEN [raised |-> "AttributeError", value |-> <<>>]
    ELSE [raised |-> "", value |-> TransactionsToDataframe(None, None)]

ReadLedger ==
    /\ result' = [op |-> "transactions_to_dataframe",
                  raised |-> LedgerView.raised, value |-> LedgerView.value]
    /\ UNCHANGED <<transactions, budgets, today, sequences, requests>>

\* get_top_spending_categories on that frame
TopCategoriesOfLedger(limit) ==
    /\ IF LedgerView.raised # ""
       THEN result' = [op |-> "top_categories", limit |-> limit,
                       raised |-> LedgerView.raised, value |-> <<>>]
       ELSE \E value \in TopSpendingCategories(limit, None, None) :
                result' = [op |-> "top_categories", limit |-> limit,
                           raised |-> "", value |-> value]
    /\ UNCHANGED <<transactions, budgets, today, sequences, requests>>

\* amount, category
DanglingInputs == {<<10, 1>>, <<20, 10>>, <<10, MissingCategoryId>>}

InitDangling ==
    /\ transactions = <<>>
    /\ budgets = <<>>
    /\ today = MakeDate(2024, 7, 15)
    /\ result = NoResult
    /\ sequences = NoDeletions
    /\ requests = NoRequests

DanglingCreateTransaction ==
    /\ Len(transactions) < MaxDanglingTxns
    /\ \E input \in DanglingInputs, type \in TransactionTypes :
           CreateTransaction(today, input[1], input[2], type)

NextDangling ==
    \/ DanglingCreateTransaction
    \/ ReadLedger
    \/ \E limit \in 1..2 : TopCategoriesOfLedger(limit)

SpecDangling == InitDangling /\ [][NextDangling]_vars

\* C19: with a transaction whose category reference is dangling,
\* transactions_to_dataframe still returns the view, one row per transaction,
\* the dangling row under the category name "Unknown", and the analytics
\* operation built on it returns a value too.
C19_DanglingCategoryIsUnknown ==
    (/\ result.op \in {"transactions_to_dataframe", "top_categories"}
     /\ \E n \in DOMAIN transactions :
            transactions[n].category_id \notin CategoryIds) =>
        /\ result.raised = ""
        /\ result.op = "transactions_to_dataframe" =>
               /\ Len(result.value) = Len(transactions)
               /\ \A i \in DOMAIN result.value :
                      transactions[i].category_id \notin CategoryIds =>
                          result.value[i].category = "Unknown"

(***************************************************************************)
(* crud.get_transactions                                                   *)
(***************************************************************************)
MaxRoundTripTxns == 2

\* the default page: skip = 0, limit = 100
DefaultSkip == 0
DefaultLimit == 100

\* ORDER BY date DESC leaves rows of one date in an order the database
\* chooses: by id ascending or by id descending
TieOrders == {"id_asc", "id_desc"}

Reverse(seq) == [i \in 1..Len(seq) |-> seq[Len(seq) - i + 1]]

\* the rows of one date, the table being in id order
RowsOnDate(d, tie) ==
    LET rows == SelectSeq(transactions, LAMBDA t : t.date = d)
    IN  IF tie = "id_asc" THEN rows ELSE Reverse(rows)

RECURSIVE RowsOfDates(_, _)
RowsOfDates(dates, tie) ==
    IF dates = <<>> THEN <<>>
    ELSE RowsOnDate(Head(dates), tie) \o RowsOfDates(Tail(dates), tie)

\* the table in the order of the query: latest date first
OrderedByDateDesc(tie) ==
    RowsOfDates(Reverse(Ascending({transactions[i].date :
                                      i \in DOMAIN transactions})), tie)

\* the row as returned, with the injected category_name
ListedRow(t) ==
    [id |-> t.id, date |-> t.date, amount |-> t.amount,
     category_id |-> t.category_id,
     category_name |-> IF CategoryRel(t.category_id) # PyNone
                       THEN CategoryRel(t.category_id).name
                       ELSE "Uncategorized",
     transaction_type |-> t.transaction_type]

\* query.order_by(Transaction.date.desc()).offset(skip).limit(limit).all()
\* with no filter given
TransactionsPage(skip, limit, tie) ==
    LET ordered == OrderedByDateDesc(tie)
        last == IF skip + limit < Len(ordered) THEN skip + limit ELSE Len(ordered)
        page == SubSeq(ordered, skip + 1, last)
    IN  [k \in DOMAIN page |-> ListedRow(page[k])]

GetTransactions ==
    /\ \E tie \in TieOrders :
           result' = [op |-> "get_transactions",
                      value |-> TransactionsPage(DefaultSkip, DefaultLimit, tie)]
    /\ UNCHANGED <<transactions, budgets, today, sequences, requests>>

(***************************************************************************)
(* The ledger as created empty, or as seeded with the 100 sample expenses  *)
(* of add_sample_data (each dated up to 180 days back), then transactions  *)
(* written and read back.                                                  *)
(***************************************************************************)
SampleTransactions == 100
SampleDaysAgo == {0, 180}

\* seed_samples' transactions, all drawn with the same days_ago
SeededLedger(days_ago) ==
    [i \in 1..SampleTransactions |->
        TransactionRow(i, MakeDate(2025, 1, 15) - days_ago, 15, 1, "expense")]

\* days before today, amount, category, kind
RoundTripInputs ==
    {<<0, 10, 1, "expense">>, <<365, 25, 10, "expense">>,
     <<180, 10, 14, "income">>, <<0, 10, MissingCategoryId, "expense">>}

InitRoundTrip ==
    /\ transactions \in {<<>>} \cup {SeededLedger(d) : d \in SampleDaysAgo}
    /\ budgets = <<>>
    /\ today = MakeDate(2025, 1, 15)
    /\ result = NoResult
    /\ sequences = NoDeletions
    /\ requests = NoRequests

\* the transactions written after the seed
WrittenCount ==
    IF Len(transactions) >= SampleTransactions
    THEN Len(transactions) - SampleTransactions
    ELSE Len(transactions)

RoundTripCreateTransaction ==
    /\ WrittenCount < MaxRoundTripTxns
    /\ \E input \in RoundTripInputs :
           CreateTransaction(today - input[1], input[2], input[3], input[4])

NextRoundTrip ==
    \/ RoundTripCreateTransaction
    \/ GetTransactions

SpecRoundTrip == InitRoundTrip /\ [][NextRoundTrip]_vars

\* C20: a get_transactions with no filters that immediately follows a
\* committed create_transaction returns a row with the new transaction's id
\* and the same amount, date, category and kind.
C20_CreateThenListRoundTrip ==
    [][(result.op = "create_transaction" /\ result'.op = "get_transactions") =>
          \E i \in DOMAIN result'.value :
              /\ result'.value[i].id = result.value.id
              /\ result'.value[i].amount = result.value.amount
              /\ result'.value[i].date = result.value.date
              /\ result'.value[i].category_id = result.value.category_id
              /\ result'.value[i].transaction_type = result.value.transaction_type]_vars

(***************************************************************************)
(* crud.delete_transaction                                                 *)
(***************************************************************************)
TransactionExists(transaction_id) ==
    \E i \in DOMAIN transactions : transactions[i].id = transaction_id

DeleteTransaction(transaction_id) ==
    /\ IF TransactionExists(transaction_id)
       THEN /\ transactions' = SelectSeq(transactions,
                                   LAMBDA t : t.id # transaction_id)
            /\ result' = [op |-> "delete_transaction", raised |-> "",
                          transaction_id |-> transaction_id, value |-> TRUE]
       ELSE /\ transactions' = transactions
            /\ result' = [op |-> "delete_transaction", raised |-> "",
                          transaction_id |-> transaction_id, value |-> FALSE]
    /\ UNCHANGED <<budgets, today, sequences, requests>>

(***************************************************************************)
(* analytics.get_category_trend                                            *)
(***************************************************************************)
CategoryTrend(category_name, months) ==
    LET df == TransactionsToDataframe(Some(TrendStart(months)), Some(today))
        df_category == SelectSeq(df, LAMBDA r : /\ r.category = category_name
                                                /\ r.type = "expense")
    IN  IF df = <<>> THEN <<>>
        ELSE IF df_category = <<>> THEN <<>>
        ELSE MonthlyTotals(df_category)

GetCategoryTrend(category_name, months) ==
    /\ result' = [op |-> "category_trend", category |-> category_name,
                  months |-> months, value |-> CategoryTrend(category_name, months)]
    /\ UNCHANGED <<transactions, budgets, today, sequences, requests>>

(***************************************************************************)
(* Every analytics and forecasting endpoint over a ledger of at most       *)
(* MaxEmptyTxns rows that is empty at the start and after its rows are     *)
(* deleted, with and without budgets.                                      *)
(***************************************************************************)
MaxEmptyTxns == 1
DefaultMonths == 6
DefaultTopLimit == 5

EmptyToday == MakeDate(2024, 7, 15)

\* category, monthly limit
EmptyBudgets == {<<1, 100>>, <<1, 0>>, <<10, 100>>}

InitEmpty ==
    /\ transactions = <<>>
    /\ budgets = <<>>
    /\ today = EmptyToday
    /\ result = NoResult
    /\ sequences = NoDeletions
    /\ requests = NoRequests

\* at most MaxEmptyTxns rows are ever created
EmptyCreateTransaction ==
    /\ sequences.transactions < MaxEmptyTxns
    /\ \E type \in TransactionTypes : CreateTransaction(today, 100, 1, type)

EmptyDeleteTransaction ==
    \E i \in DOMAIN transactions : DeleteTransaction(transactions[i].id)

EmptyCreateBudget ==
    \E input \in EmptyBudgets : CreateBudget(input[1], input[2])

NextEmpty ==
    \/ EmptyCreateTransaction
    \/ EmptyDeleteTransaction
    \/ EmptyCreateBudget
    \/ GetMonthlySpendingTrend(DefaultMonths)
    \/ \E cid \in {1, 10} : GetCategoryTrend(CategoryName(cid), DefaultMonths)
    \/ GetSpendingPatterns
    \/ GetTopSpendingCategories(DefaultTopLimit)
    \/ GetUnusualSpending
    \/ \E at_midnight \in BOOLEAN : IdentifySavingsOpportunities(at_midnight)
    \/ GetBudgetAlerts
    \/ \E category_id \in {NoCategory, 1} : PredictNextMonth(category_id)
    \/ \E category_id \in {NoCategory, 1} : PredictWithSeasonality(category_id)
    \/ \E category_id \in {1, 10, 14} : PredictBudgetExhaustion(category_id)
    \/ ForecastNextYear

SpecEmpty == InitEmpty /\ [][NextEmpty]_vars

\* the endpoints that return a list
ListOps == {"monthly_trend", "category_trend", "top_categories",
            "unusual_spending", "savings_opportunities", "budget_alerts"}

\* the endpoints that return a dict
DictOps == {"spending_patterns", "predict_next_month",
            "predict_with_seasonality", "budget_exhaustion",
            "forecast_next_year"}

\* the request raised nothing
NothingRaised(r) ==
    r.op \in {"savings_opportunities", "budget_alerts", "predict_next_month",
              "predict_with_seasonality", "budget_exhaustion",
              "forecast_next_year"} => r.raised = ""

\* the result is the empty list or the endpoint's no-data dict
IsEmptyResult(r) ==
    /\ r.op \in ListOps => r.value = <<>>
    /\ r.op = "spending_patterns" => r.error = "No data available"
    /\ r.op \in {"predict_next_month", "predict_with_seasonality"} =>
           r.value = InsufficientData
    /\ r.op = "forecast_next_year" =>
           r.value = [error |-> "Insufficient data for yearly forecast"]
    /\ r.op = "budget_exhaustion" =>
           \/ r.value = [error |-> "No budget set for this category"]
           \/ r.value = [days_remaining |-> "N/A", exhaustion_date |-> PyNone,
                         message |-> "No spending this month yet"]

\* C21: while the transactions table is empty, with or without budgets,
\* every analytics and forecasting endpoint raises nothing and returns the
\* empty list or its no-data dict.
C21_EmptyLedgerGivesSentinels ==
    (transactions = <<>> /\ result.op \in ListOps \cup DictOps) =>
        (NothingRaised(result) /\ IsEmptyResult(result))

\* a budget exists, the only transaction has been deleted, and the
\* exhaustion endpoint has answered for the budgeted category
C21_Witness ==
    /\ transactions = <<>>
    /\ sequences.transactions = 1
    /\ budgets # <<>>
    /\ result.op = "budget_exhaustion"
    /\ result.raised = ""
    /\ result.value = [days_remaining |-> "N/A", exhaustion_date |-> PyNone,
                       message |-> "No spending this month yet"]

(***************************************************************************)
(* Optional arguments: a value that was passed, or the default None.       *)
(***************************************************************************)
NotGiven == [given |-> FALSE, value |-> 0]
Given(v) == [given |-> TRUE, value |-> v]

\* the requests in flight with r added, and with r gone
Put(r, request) ==
    [x \in DOMAIN requests \cup {r} |-> IF x = r THEN request ELSE requests[x]]
Drop(r) == [x \in DOMAIN requests \ {r} |-> requests[x]]

(***************************************************************************)
(* main.create_budget: the look-ups and the insert are separate            *)
(* statements of the handler, and other requests run between them.         *)
(***************************************************************************)
\* lines 232-246: the category, then the budget it may already have
CheckCreateBudget(r, cid, limit) ==
    /\ r \notin DOMAIN requests
    /\ IF cid \notin CategoryIds
       THEN /\ result' = [op |-> "create_budget", category_id |-> cid,
                          raised |-> "HTTPException", status_code |-> 404]
            /\ requests' = requests
       ELSE IF BudgetByCategoryId(cid) # 0
       THEN /\ result' = [op |-> "create_budget", category_id |-> cid,
                          raised |-> "HTTPException", status_code |-> 400]
            /\ requests' = requests
       ELSE /\ result' = result
            /\ requests' = Put(r, [op |-> "create_budget", category_id |-> cid,
                                   monthly_limit |-> limit])
    /\ UNCHANGED <<transactions, budgets, today, sequences>>

\* lines 249-261: crud.create_budget and the response
InsertCreateBudget(r) ==
    /\ r \in DOMAIN requests
    /\ requests[r].op = "create_budget"
    /\ CommitBudget(requests[r].category_id, requests[r].monthly_limit)
    /\ requests' = Drop(r)
    /\ UNCHANGED <<transactions, today>>

(***************************************************************************)
(* crud.update_budget, crud.delete_budget                                  *)
(***************************************************************************)
BudgetExists(budget_id) == \E i \in DOMAIN budgets : budgets[i].id = budget_id

\* the assignments to the row found
UpdatedBudget(b, monthly_limit, start_date) ==
    [b EXCEPT !.monthly_limit = IF monthly_limit.given
                                THEN monthly_limit.value ELSE @,
              !.start_date = IF start_date.has THEN start_date.date ELSE @]

UpdateBudget(budget_id, monthly_limit, start_date) ==
    /\ IF BudgetExists(budget_id)
       THEN LET i == CHOOSE k \in DOMAIN budgets : budgets[k].id = budget_id
                row == UpdatedBudget(budgets[i], monthly_limit, start_date)
            IN  /\ budgets' = [budgets EXCEPT ![i] = row]
                /\ result' = [op |-> "update_budget", budget_id |-> budget_id,
                              raised |-> "", found |-> TRUE, value |-> row]
       ELSE /\ budgets' = budgets
            /\ result' = [op |-> "update_budget", budget_id |-> budget_id,
                          raised |-> "", found |-> FALSE, value |-> PyNone]
    /\ UNCHANGED <<transactions, today, sequences, requests>>

DeleteBudget(budget_id) ==
    /\ IF BudgetExists(budget_id)
       THEN /\ budgets' = SelectSeq(budgets, LAMBDA b : b.id # budget_id)
            /\ result' = [op |-> "delete_budget", budget_id |-> budget_id,
                          raised |-> "", value |-> TRUE]
       ELSE /\ budgets' = budgets
            /\ result' = [op |-> "delete_budget", budget_id |-> budget_id,
                          raised |-> "", value |-> FALSE]
    /\ UNCHANGED <<transactions, today, sequences, requests>>

(***************************************************************************)
(* Budget requests: up to MaxBudgetRequests create requests in flight at   *)
(* once, updates and deletes between their steps, at most MaxBudgetRows    *)
(* rows ever inserted.                                                     *)
(***************************************************************************)
MaxBudgetRequests == 2
MaxBudgetRows == 3

BudgetsToday == MakeDate(2024, 7, 15)
BudgetCategories == {1, 10, MissingCategoryId}
BudgetLimits == {100, 200}
BudgetIds == 1..(MaxBudgetRows + 1)

InitBudgets ==
    /\ transactions = <<>>
    /\ budgets = <<>>
    /\ today = BudgetsToday
    /\ result = NoResult
    /\ sequences = NoDeletions
    /\ requests = NoRequests

BudgetsCheckCreate ==
    /\ sequences.budgets < MaxBudgetRows
    /\ \E r \in 1..MaxBudgetRequests, cid \in BudgetCategories,
          limit \in BudgetLimits : CheckCreateBudget(r, cid, limit)

BudgetsInsertCreate == \E r \in DOMAIN requests : InsertCreateBudget(r)

BudgetsUpdate ==
    \E budget_id \in BudgetIds, monthly_limit \in {NotGiven, Given(300)},
       start_date \in {None, Some(BudgetsToday + 1)} :
        UpdateBudget(budget_id, monthly_limit, start_date)

BudgetsDelete == \E budget_id \in BudgetIds : DeleteBudget(budget_id)

NextBudgets ==
    \/ BudgetsCheckCreate
    \/ BudgetsInsertCreate
    \/ BudgetsUpdate
    \/ BudgetsDelete

SpecBudgets == InitBudgets /\ [][NextBudgets]_vars

AtMostOneBudgetPerCategory ==
    \A i, j \in DOMAIN budgets :
        budgets[i].category_id = budgets[j].category_id => i = j

\* the request's insert step has just run
Inserted(r) == r \in DOMAIN requests /\ r \notin DOMAIN requests'

\* the request's check step has just let it through
LetThrough(r) == r \notin DOMAIN requests /\ r \in DOMAIN requests'

\* C22: every step of create, update and delete requests, the two steps of
\* concurrent creates interleaved, leaves at most one budget per category;
\* a create is let through its check only when the category has no budget,
\* and an insert for a category that has one by then is refused and
\* changes no budget.
C22_OneBudgetPerCategory ==
    [][/\ AtMostOneBudgetPerCategory'
       /\ \A r \in 1..MaxBudgetRequests :
              /\ LetThrough(r) => ~HasBudget(requests'[r].category_id)
              /\ (Inserted(r) /\ HasBudget(requests[r].category_id)) =>
                     /\ result' = [op |-> "create_budget",
                                    raised |-> "IntegrityError"]
                     /\ budgets' = budgets]_vars

\* two creates for one category passed the check together; the first was
\* inserted and the second refused
C22_Witness ==
    /\ result = [op |-> "create_budget", raised |-> "IntegrityError"]
    /\ Len(budgets) = 1
    /\ requests = NoRequests

(***************************************************************************)
(* crud.update_transaction                                                 *)
(***************************************************************************)
NoTransactionType == [given |-> FALSE, value |-> "None"]

\* .filter(Transaction.id == transaction_id).first(): the index of the row,
\* or 0 for None
FirstTransaction(transaction_id) ==
    IF TransactionExists(transaction_id)
    THEN CHOOSE i \in DOMAIN transactions : transactions[i].id = transaction_id
    ELSE 0

\* the test for a missing row left out
FoundUnchecked(i) == FALSE

\* if not db_transaction
NotFound(i) == i = 0

\* 'is not None' read as truthiness
IsNotNoneAsTruthy(arg) == arg.given /\ arg.value # 0

\* if amount is not None
IsNotNone(arg) == arg.given

\* if category_id
IsTruthy(arg) == arg.given /\ arg.value # 0

\* the assignments to the row found; a date and an enum member are truthy
UpdatedTransaction(t, date, amount, category_id, transaction_type) ==
    [t EXCEPT !.date = IF date.has THEN date.date ELSE @,
              !.amount = IF IsNotNone(amount) THEN amount.value ELSE @,
              !.category_id = IF IsTruthy(category_id)
                              THEN category_id.value ELSE @,
              !.transaction_type = IF transaction_type.given
                                   THEN transaction_type.value ELSE @]

\* what Python raises when the statements after the test run on None: the
\* first assignment, or else db.refresh
RaisedOnNone(date, amount, category_id, transaction_type) ==
    IF \/ date.has \/ IsNotNone(amount) \/ IsTruthy(category_id)
       \/ transaction_type.given
    THEN "AttributeError" ELSE "UnmappedInstanceError"

UpdateTransaction(transaction_id, date, amount, category_id, transaction_type) ==
    LET i == FirstTransaction(transaction_id)
    IN  /\ IF NotFound(i)
           THEN /\ transactions' = transactions
                /\ result' = [op |-> "update_transaction",
                              transaction_id |-> transaction_id,
                              arguments |-> <<date, amount, category_id,
                                              transaction_type>>, raised |-> "",
                              found |-> FALSE, value |-> PyNone]
           ELSE IF i = 0
           THEN /\ transactions' = transactions
                /\ result' = [op |-> "update_transaction",
                              transaction_id |-> transaction_id,
                              arguments |-> <<date, amount, category_id,
                                              transaction_type>>,
                              raised |-> RaisedOnNone(date, amount, category_id,
                                                      transaction_type),
                              found |-> FALSE, value |-> PyNone]
           ELSE LET row == UpdatedTransaction(transactions[i], date, amount,
                                              category_id, transaction_type)
                IN  /\ transactions' = [transactions EXCEPT ![i] = row]
                    /\ result' = [op |-> "update_transaction",
                                  transaction_id |-> transaction_id,
                              arguments |-> <<date, amount, category_id,
                                              transaction_type>>,
                                  raised |-> "", found |-> TRUE, value |-> row]
        /\ UNCHANGED <<budgets, today, sequences, requests>>

(***************************************************************************)
(* create_transaction and update_transaction over a ledger of at most      *)
(* MaxUpdateTxns rows: amounts of either sign, and updates that pass none, *)
(* one or all of the optional fields, an amount of 0 and a category_id of  *)
(* 0 among them, to ids that exist and to one that does not.               *)
(***************************************************************************)
MaxUpdateTxns == 2

UpdateToday == MakeDate(2024, 7, 15)
UpdateAmounts == {-50, 50}

\* date, amount, category_id, transaction_type
UpdateArguments ==
    {<<None, NotGiven, NotGiven, NoTransactionType>>,
     <<None, Given(0), NotGiven, NoTransactionType>>,
     <<None, Given(-50), NotGiven, NoTransactionType>>,
     <<None, NotGiven, Given(0), NoTransactionType>>,
     <<None, NotGiven, Given(10), NoTransactionType>>,
     <<None, NotGiven, NotGiven, Given("income")>>,
     <<Some(UpdateToday - 1), Given(0), Given(10), Given("income")>>}

InitUpdate ==
    /\ transactions = <<>>
    /\ budgets = <<>>
    /\ today = UpdateToday
    /\ result = NoResult
    /\ sequences = NoDeletions
    /\ requests = NoRequests

UpdateCreateTransaction ==
    /\ sequences.transactions < MaxUpdateTxns
    /\ \E amount \in UpdateAmounts, type \in TransactionTypes :
           CreateTransaction(UpdateToday, amount, 1, type)

UpdateUpdateTransaction ==
    \E transaction_id \in 1..(MaxUpdateTxns + 1), a \in UpdateArguments :
        UpdateTransaction(transaction_id, a[1], a[2], a[3], a[4])

NextUpdate == UpdateCreateTransaction \/ UpdateUpdateTransaction

SpecUpdate == InitUpdate /\ [][NextUpdate]_vars

\* C23: after any accepted sequence of create_transaction and
\* update_transaction, every stored transaction has an amount >= 0.
C23_AmountsNonNegative ==
    \A i \in DOMAIN transactions : transactions[i].amount >= 0

\* the row update_transaction was asked for, in the table before the call
Target == FirstTransaction(result'.transaction_id)

\* C29: update_transaction on an id that exists writes exactly the fields
\* passed with a value: the date and the kind when given, the amount when
\* it is not None (0 included), the category_id when it is not None and
\* not 0; the row's id and its other fields, every other transaction and
\* the budgets stay as they were.
C29_UpdateWritesOnlyGivenFields ==
    [][(result'.op = "update_transaction" /\ Target # 0) =>
          LET a == result'.arguments
              old == transactions[Target]
              new == transactions'[Target]
          IN  /\ result'.raised = ""
              /\ DOMAIN transactions' = DOMAIN transactions
              /\ \A j \in DOMAIN transactions \ {Target} :
                     transactions'[j] = transactions[j]
              /\ new.id = old.id
              /\ new.date = IF a[1].has THEN a[1].date ELSE old.date
              /\ new.amount = IF a[2].given THEN a[2].value ELSE old.amount
              /\ new.category_id = IF a[3].given /\ a[3].value # 0
                                   THEN a[3].value ELSE old.category_id
              /\ new.transaction_type = IF a[4].given THEN a[4].value
                                        ELSE old.transaction_type
              /\ result'.value = new
              /\ budgets' = budgets]_vars

\* an amount of 0 was written to one of two stored transactions
C29_Witness ==
    /\ result.op = "update_transaction"
    /\ result.found
    /\ result.arguments[2] = Given(0)
    /\ result.value.amount = 0
    /\ Len(transactions) = 2
    /\ \E i \in DOMAIN transactions : transactions[i].amount # 0

(***************************************************************************)
(* database.get_db: the dependency of every endpoint.  A request calls     *)
(* SessionLocal(), its handler runs with the session it was handed, and    *)
(* the finally clause closes that session once the handler has returned    *)
(* or raised.  Up to MaxSessionRequests requests run at once.              *)
(***************************************************************************)
MaxSessionRequests == 3

SessionRequests == 1..MaxSessionRequests
SessionIds == 1..MaxSessionRequests

Idle == [pc |-> "idle", db |-> 0, outcome |-> "none"]

\* the request holds a session that is not closed yet
HoldsSession(r) == requests[r].pc \in {"handler", "finally"}

OpenSessions == {requests[r].db : r \in {q \in SessionRequests : HoldsSession(q)}}

\* one session object made at import and handed to every request
SharedSession == CHOOSE s \in SessionIds : \A t \in SessionIds : s <= t

\* SessionLocal(): a session object of its own for each call
NewSession == CHOOSE s \in SessionIds : s \notin OpenSessions

\* db = SessionLocal(); yield db
Acquire(r) ==
    /\ requests[r].pc \in {"idle", "closed"}
    /\ requests' = [requests EXCEPT ![r] = [pc |-> "handler", db |-> NewSession,
                                            outcome |-> "none"]]
    /\ UNCHANGED <<transactions, budgets, today, result, sequences>>

\* the handler ends: it returns its response or raises (an HTTPException,
\* or an error of the database)
HandlerEnds(r) ==
    /\ requests[r].pc = "handler"
    /\ \E outcome \in {"returned", "raised"} :
           requests' = [requests EXCEPT ![r].pc = "finally",
                                        ![r].outcome = outcome]
    /\ UNCHANGED <<transactions, budgets, today, result, sequences>>

\* finally: db.close()
Close(r) ==
    /\ requests[r].pc = "finally"
    /\ requests' = [requests EXCEPT ![r].pc = "closed"]
    /\ UNCHANGED <<transactions, budgets, today, result, sequences>>

InitSessions ==
    /\ transactions = <<>>
    /\ budgets = <<>>
    /\ today = MakeDate(2024, 7, 15)
    /\ result = NoResult
    /\ sequences = NoDeletions
    /\ requests = [r \in SessionRequests |-> Idle]

NextSessions ==
    \E r \in SessionRequests : Acquire(r) \/ HandlerEnds(r) \/ Close(r)

SpecSessions == InitSessions /\ [][NextSessions]_vars

\* a handler is a finite synchronous function and the finally clause runs
\* when it ends
SpecSessionsFair ==
    /\ SpecSessions
    /\ \A r \in SessionRequests :
           WF_vars(HandlerEnds(r)) /\ WF_vars(Close(r))

NoSharedSession ==
    \A r, q \in SessionRequests :
        (HoldsSession(r) /\ HoldsSession(q) /\ requests[r].db = requests[q].db)
            => r = q

\* C24: no two requests in flight hold the same session, and the session a
\* request acquired is closed eventually, whether its handler returns or
\* raises.
C24_SessionPerRequestIsClosed ==
    /\ []NoSharedSession
    /\ \A r \in SessionRequests :
           (requests[r].pc = "handler") ~> (requests[r].pc = "closed")

\* one request's session was closed after its handler raised while two
\* other requests hold their sessions
C24_Witness ==
    /\ requests[1].pc = "closed"
    /\ requests[1].outcome = "raised"
    /\ HoldsSession(2)
    /\ HoldsSession(3)
    /\ requests[2].db # requests[3].db

(***************************************************************************)
(* The update and delete operations and the exhaustion forecast, called    *)
(* with ids and categories that exist and with ones that do not, over at   *)
(* most MaxCrudTxns transactions and MaxCrudBudgets budgets ever created.  *)
(***************************************************************************)
MaxCrudTxns == 1
MaxCrudBudgets == 1

CrudToday == MakeDate(2024, 7, 15)
CrudCategories == {1, 10}
CrudTransactionIds == 1..(MaxCrudTxns + 1)
CrudBudgetIds == 1..(MaxCrudBudgets + 1)

InitCrud ==
    /\ transactions = <<>>
    /\ budgets = <<>>
    /\ today = CrudToday
    /\ result = NoResult
    /\ sequences = NoDeletions
    /\ requests = NoRequests

CrudCreateTransaction ==
    /\ sequences.transactions < MaxCrudTxns
    /\ CreateTransaction(CrudToday, 50, 1, "expense")

CrudUpdateTransaction ==
    \E transaction_id \in CrudTransactionIds, amount \in {NotGiven, Given(70)} :
        UpdateTransaction(transaction_id, None, amount, NotGiven,
                          NoTransactionType)

CrudDeleteTransaction ==
    \E transaction_id \in CrudTransactionIds : DeleteTransaction(transaction_id)

CrudCreateBudget ==
    /\ sequences.budgets < MaxCrudBudgets
    /\ \E cid \in CrudCategories : CreateBudget(cid, 100)

CrudUpdateBudget ==
    \E budget_id \in CrudBudgetIds, monthly_limit \in {NotGiven, Given(300)} :
        UpdateBudget(budget_id, monthly_limit, None)

CrudDeleteBudget == \E budget_id \in CrudBudgetIds : DeleteBudget(budget_id)

NextCrud ==
    \/ CrudCreateTransaction
    \/ CrudUpdateTransaction
    \/ CrudDeleteTransaction
    \/ CrudCreateBudget
    \/ CrudUpdateBudget
    \/ CrudDeleteBudget
    \/ \E category_id \in CrudCategories : PredictBudgetExhaustion(category_id)

SpecCrud == InitCrud /\ [][NextCrud]_vars

\* the request just answered named a row or a budget that was not there
NamedMissingRow ==
    \/ /\ result'.op \in {"update_transaction", "delete_transaction"}
       /\ \A i \in DOMAIN transactions :
              transactions[i].id # result'.transaction_id
    \/ /\ result'.op \in {"update_budget", "delete_budget"}
       /\ \A i \in DOMAIN budgets : budgets[i].id # result'.budget_id
    \/ /\ result'.op = "budget_exhaustion"
       /\ ~HasBudget(result'.category_id)

\* None from the updates, False from the deletes, the error dict from the
\* forecast
NotFoundValue ==
    /\ result'.raised = ""
    /\ result'.op \in {"update_transaction", "update_budget"} =>
           result'.value = PyNone
    /\ result'.op \in {"delete_transaction", "delete_budget"} =>
           result'.value = FALSE
    /\ result'.op = "budget_exhaustion" =>
           result'.value = [error |-> "No budget set for this category"]

\* C25: update_transaction, delete_transaction, update_budget and
\* delete_budget with an id that is not in the table, and
\* predict_budget_exhaustion for a category without a budget, raise
\* nothing, return None, False or the error dict, and change no
\* transaction and no budget.
C25_MissingIdChangesNothing ==
    [][NamedMissingRow =>
          /\ NotFoundValue
          /\ transactions' = transactions
          /\ budgets' = budgets]_vars

\* update_transaction was asked for an id that was deleted, with another
\* budget in place
C25_Witness ==
    /\ result.op = "update_transaction"
    /\ ~result.found
    /\ result.value = PyNone
    /\ sequences.transactions >= result.transaction_id
    /\ budgets # <<>>

(***************************************************************************)
(* get_unusual_spending called with its default threshold and with a       *)
(* threshold of 1, over ledgers of up to MaxGateTxns rows on either side   *)
(* of the five-row minimum: Food & Dining expenses of 50 and 200 and       *)
(* Food & Dining income of 200.                                            *)
(***************************************************************************)
MaxGateTxns == 5

GateInputs == {<<50, "expense">>, <<200, "expense">>, <<200, "income">>}
GateThresholds == {1, StdThreshold}

InitGate ==
    /\ transactions = <<>>
    /\ budgets = <<>>
    /\ today = MakeDate(2024, 7, 15)
    /\ result = NoResult
    /\ sequences = NoDeletions
    /\ requests = NoRequests

GateCreateTransaction ==
    /\ Len(transactions) < MaxGateTxns
    /\ \E input \in GateInputs : CreateTransaction(today, input[1], 1, input[2])

GateGetUnusualSpending ==
    /\ \E std_threshold \in GateThresholds :
           result' = [op |-> "unusual_spending", std_threshold |-> std_threshold,
                      value |-> UnusualSpending(std_threshold)]
    /\ UNCHANGED <<transactions, budgets, today, sequences, requests>>

NextGate == GateCreateTransaction \/ GateGetUnusualSpending

SpecGate == InitGate /\ [][NextGate]_vars

\* IsOutlier for a threshold of any size
IsOutlierAt(k, threshold) ==
    /\ transactions[k].transaction_type = "expense"
    /\ LET S == ExpensesOf(transactions[k].category_id)
           count == Cardinality(S)
           sum == SumOfRows(S)
           ssd == ScaledSquaredDeviations(S, count, sum)
           dev == count * transactions[k].amount - sum
       IN  /\ count >= 2
           /\ ssd > 0
           /\ dev * dev * (count - 1) > threshold * threshold * ssd

\* C27: with fewer than 5 rows in the ledger, income and expenses counted
\* together, get_unusual_spending returns the empty list whatever the
\* amounts and the threshold; with 5 rows or more it flags by z-score
\* however few of the rows are expenses.
C27_GateCountsAllRows ==
    result.op = "unusual_spending" =>
        IF Len(transactions) < 5
        THEN result.value = <<>>
        ELSE FlaggedIds =
                 {transactions[k].id :
                     k \in {n \in DOMAIN transactions :
                               IsOutlierAt(n, result.std_threshold)}}

\* four rows hold an expense that stands out at threshold 1 and nothing is
\* flagged
C27_Witness ==
    /\ result.op = "unusual_spending"
    /\ result.std_threshold = 1
    /\ Len(transactions) = 4
    /\ \E k \in DOMAIN transactions : IsOutlierAt(k, 1)
    /\ result.value = <<>>

(***************************************************************************)
(* analytics.predict_monthly_spending                                      *)
(***************************************************************************)
\* the category argument left at None
AnyCategory == ""

\* Series.tail(n)
TailRows(seq, n) ==
    IF n >= Len(seq) THEN seq ELSE SubSeq(seq, Len(seq) - n + 1, Len(seq))

\* Series.mean() of a series that is not empty
MeanAmount(rows) == Reduce(TrueDiv(SumAmounts(rows), Len(rows)))

\* the trend with the comparison not strict
SimpleTrendNotStrict(monthly) ==
    IF Len(monthly) >= 3
    THEN LET recent == MeanAmount(TailRows(monthly, 3))
             older == IF Len(monthly) > 3
                      THEN MeanAmount(HeadRows(monthly, Len(monthly) - 3))
                      ELSE recent
         IN  IF ~RatGreater(older, recent) THEN "increasing" ELSE "decreasing"
    ELSE "stable"

\* lines 249-254
SimpleTrend(monthly) ==
    IF Len(monthly) >= 3
    THEN LET recent == MeanAmount(TailRows(monthly, 3))
             older == IF Len(monthly) > 3
                      THEN MeanAmount(HeadRows(monthly, Len(monthly) - 3))
                      ELSE recent
         IN  IF RatGreater(recent, older) THEN "increasing" ELSE "decreasing"
    ELSE "stable"

PredictMonthlySpending(category) ==
    LET df == TransactionsToDataframe(None, None)
        expenses == FrameExpenses(df)
        df_expenses == IF category # AnyCategory
                       THEN SelectSeq(expenses, LAMBDA r : r.category = category)
                       ELSE expenses
        monthly == MonthlyTotals(df_expenses)
    IN  IF df = <<>> THEN [error |-> "No data available"]
        ELSE IF df_expenses = <<>> THEN [error |-> "No expense data available"]
        ELSE IF Len(monthly) < 2 THEN [error |-> "Not enough historical data"]
        ELSE [predicted_amount |-> MeanAmount(TailRows(monthly, 3)),
              overall_average |-> MeanAmount(monthly),
              trend |-> SimpleTrend(monthly),
              confidence |-> IF Len(monthly) >= 6 THEN "medium" ELSE "low"]

PredictSpending(category) ==
    /\ result' = [op |-> "predict_spending", category |-> category,
                  value |-> PredictMonthlySpending(category)]
    /\ UNCHANGED <<transactions, budgets, today, sequences, requests>>

(***************************************************************************)
(* The simple predictor over a ledger with one transaction a month from    *)
(* January 2024, up to MaxSimpleTxns months: expenses in two categories    *)
(* and income, so that months without an expense in scope occur.           *)
(***************************************************************************)
MaxSimpleTxns == 5

\* amount, category, kind
SimpleInputs == {<<10, 1, "expense">>, <<20, 1, "expense">>,
                 <<20, 10, "expense">>, <<20, 1, "income">>}

InitSimple ==
    /\ transactions = <<>>
    /\ budgets = <<>>
    /\ today = MakeDate(2024, 12, 15)
    /\ result = NoResult
    /\ sequences = NoDeletions
    /\ requests = NoRequests

SimpleCreateTransaction ==
    /\ Len(transactions) < MaxSimpleTxns
    /\ \E input \in SimpleInputs :
           CreateTransaction(MakeDate(2024, Len(transactions) + 1, 10),
                             input[1], input[2], input[3])

NextSimple ==
    \/ SimpleCreateTransaction
    \/ \E category \in {AnyCategory, CategoryName(1)} : PredictSpending(category)

SpecSimple == InitSimple /\ [][NextSimple]_vars

\* the expense rows in the scope of a category name
ScopeRows(category) ==
    {n \in DOMAIN transactions :
        /\ transactions[n].transaction_type = "expense"
        /\ category # AnyCategory =>
               CategoryName(transactions[n].category_id) = category}

\* the expense total of the scope over a set of calendar months
TotalOver(category, months) ==
    SumOfRows({n \in ScopeRows(category) :
                  MonthPeriod(transactions[n].date) \in months})

\* C30: with at least 2 months of expenses in scope, predicted_amount is the
\* mean of the last 3 monthly totals (of both when there are 2); the trend
\* is "increasing" exactly when there are more than 3 months and that mean
\* is strictly above the mean of all earlier months, "stable" exactly when
\* there are 2 months, and "decreasing" otherwise.
C30_SimplePredictorTrend ==
    result.op = "predict_spending" =>
        LET months == {MonthPeriod(transactions[n].date) :
                          n \in ScopeRows(result.category)}
            count == Cardinality(months)
            last == {m \in months : Cardinality({x \in months : x > m}) < 3}
            earlier == months \ last
            recent_sum == TotalOver(result.category, last)
            older_sum == TotalOver(result.category, earlier)
            rising == /\ count > 3
                      /\ recent_sum * Cardinality(earlier)
                             > older_sum * Cardinality(last)
        IN  IF count < 2 THEN "error" \in DOMAIN result.value
            ELSE /\ result.value.predicted_amount.num * Cardinality(last)
                        = recent_sum * result.value.predicted_amount.den
                 /\ result.value.trend = "increasing" <=> rising
                 /\ result.value.trend = "stable" <=> count = 2
                 /\ result.value.trend = "decreasing" <=> (count > 2 /\ ~rising)

\* four months in scope with equal means of the last three and of the
\* first: the trend is decreasing
C30_Witness ==
    /\ result.op = "predict_spending"
    /\ "trend" \in DOMAIN result.value
    /\ Cardinality({MonthPeriod(transactions[n].date) :
                       n \in ScopeRows(result.category)}) = 4
    /\ result.value.predicted_amount = result.value.overall_average
    /\ result.value.trend = "decreasing"

====
